---- MODULE Spec2Model ----
(***************************************************************************)
(* A model of the light-transport engine of build_your_own_raytracer.      *)
(*                                                                         *)
(* Numbers.  The program computes in f32.  The model computes in fixed     *)
(* point, with three kinds of quantity:                                    *)
(*   - lengths (positions, radii, hit distances t) are integers counting   *)
(*     units of 1e-5, so the self-intersection epsilon 1e-5 is 1 and the   *)
(*     ray offset 1e-4 is 10;                                              *)
(*   - dimensionless numbers (direction components, cosines, rates,        *)
(*     weights, colour channels, refractive indices) are integers counting *)
(*     units of 1/ONE, so 1.0 is ONE;                                      *)
(*   - absorption coefficients (1/length) count units of 1e5/ONE, so that  *)
(*     absorption * distance is a dimensionless fixed-point number.        *)
(* A product with a dimensionless factor is rescaled by ONE (FMul); a      *)
(* product of two lengths is kept as it is.  Divisions round down.         *)
(***************************************************************************)
EXTENDS Integers, Sequences, FiniteSets, TLC

\* ------------------------------------------------------------------ bounds

\* Largest number of surfaces in a scene.
MaxSurfaces == 2

\* Largest number of lights in a scene.
MaxLights == 2

\* Largest configured max_depth.
MaxDepthBound == 3

\* The number of frames main renders (300 in main.rs).
MaxFrames == 5

\* Largest number of CPU cores available_parallelism reports.
MaxCores == 5

\* --------------------------------------------------------------- constants

\* The fixed-point representation of 1.0 (Float).
ONE == 1000

\* The self-intersection epsilon 1e-5, in length units.
EPS == 1

\* The ray offset 1e-4, in length units.
OFFSET_EPS == 10

\* The threshold 1e-5 below which a rate emits no branch.  A rate is a
\* fixed-point number, of which the smallest positive one is 1/ONE > 1e-5:
\* rate > 1e-5 is rate > 0.
RATE_EPS == 0

None == [none |-> TRUE]

\* ------------------------------------------------------------ Float (f32)

FMul(a, b) == (a * b) \div ONE

FDiv(a, b) == (a * ONE) \div b

Min(a, b) == IF a < b THEN a ELSE b

Max(a, b) == IF a > b THEN a ELSE b

RECURSIVE SqrtSearch(_, _, _)
SqrtSearch(n, lo, hi) ==
    IF lo >= hi THEN lo
    ELSE LET mid == (lo + hi + 1) \div 2
         IN  IF mid * mid <= n THEN SqrtSearch(n, mid, hi)
             ELSE SqrtSearch(n, lo, mid - 1)

\* f32::sqrt of a non-negative number: the result has the scale s when the
\* argument has the scale s * s.
Sqrt(n) == SqrtSearch(n, 0, Min(n, 46340))

\* exp(-y) for a fixed-point y >= 0: halve the argument until it is at
\* most 1/8, then the Taylor polynomial of degree 3.
RECURSIVE ExpNeg(_)
ExpNeg(y) ==
    IF y <= ONE \div 8
    THEN ONE - y + (FMul(y, y) \div 2) - (FMul(FMul(y, y), y) \div 6)
    ELSE LET h  == ExpNeg(y \div 2)
             sq == FMul(h, h)
         IN  IF y % 2 = 1 THEN FMul(sq, ONE - 1) ELSE sq

\* f32::exp of a fixed-point x.
Exp(x) == IF x <= 0 THEN ExpNeg(-x) ELSE FDiv(ONE, ExpNeg(x))

\* ------------------------------------------------------------------- Vec3

Vec3(x, y, z) == [x |-> x, y |-> y, z |-> z]

VAdd(u, v) == Vec3(u.x + v.x, u.y + v.y, u.z + v.z)

VSub(u, v) == Vec3(u.x - v.x, u.y - v.y, u.z - v.z)

VNeg(u) == Vec3(-u.x, -u.y, -u.z)

\* Vec3 * Float, one of the two dimensionless.
VScale(u, s) == Vec3(FMul(u.x, s), FMul(u.y, s), FMul(u.z, s))

\* The dot product of two vectors of which one is dimensionless.
Dot(u, v) == FMul(u.x, v.x) + FMul(u.y, v.y) + FMul(u.z, v.z)

\* The dot product of a vector with itself, in the square of its scale.
LengthSquared(u) == u.x * u.x + u.y * u.y + u.z * u.z

Length(u) == Sqrt(LengthSquared(u))

Normalize(u) ==
    LET len == Length(u)
    IN  IF len = 0 THEN u
        ELSE Vec3(FDiv(u.x, len), FDiv(u.y, len), FDiv(u.z, len))

\* ------------------------------------------------------------------ Color

Color(r, g, b) == [r |-> r, g |-> g, b |-> b]

Black == Color(0, 0, 0)

White == Color(ONE, ONE, ONE)

CAdd(c, d) == Color(c.r + d.r, c.g + d.g, c.b + d.b)

\* Color * Float
CScale(c, s) == Color(FMul(c.r, s), FMul(c.g, s), FMul(c.b, s))

\* Color * Color
CMul(c, d) == Color(FMul(c.r, d.r), FMul(c.g, d.g), FMul(c.b, d.b))

\* --------------------------------------------------------------- Material

\* The rates stored as given.
MaterialNewUnclamped(albedo, diffuse_rate, specular_rate, transmission_rate, refractive_index, absorption) ==
    [albedo            |-> albedo,
     diffuse_rate      |-> diffuse_rate,
     specular_rate     |-> specular_rate,
     transmission_rate |-> transmission_rate,
     refractive_index  |-> refractive_index,
     absorption        |-> absorption]

MaterialNew(albedo, diffuse_rate, specular_rate, transmission_rate, refractive_index, absorption) ==
    [albedo            |-> albedo,
     diffuse_rate      |-> Min(Max(diffuse_rate, 0), ONE),
     specular_rate     |-> Min(Max(specular_rate, 0), ONE),
     transmission_rate |-> Min(Max(transmission_rate, 0), ONE),
     refractive_index  |-> refractive_index,
     absorption        |-> absorption]

Matte(albedo, diffuse_rate) ==
    MaterialNew(albedo, diffuse_rate, 0, 0, ONE, Black)

Mirror(albedo, specular_rate) ==
    MaterialNew(albedo, 0, specular_rate, 0, ONE, Black)

\* Material::transparent(albedo, transmission_rate, refractive_index)
Transparent(albedo, transmission_rate, refractive_index) ==
    MaterialNew(albedo, 0, 0, transmission_rate, refractive_index, Black)

\* Material::glass(transmission_rate): white, specular_rate 0.1, index 1.5
MaterialGlass(transmission_rate) ==
    MaterialNew(White, 0, 100, transmission_rate, 1500, Black)

\* -------------------------------------------------- Ray and Intersection

\* The direction stored as given.
RayNewAsGiven(origin, direction) ==
    [origin |-> origin, direction |-> direction]

RayNew(origin, direction) ==
    [origin |-> origin, direction |-> Normalize(direction)]

RayAt(ray, t) == VAdd(ray.origin, VScale(ray.direction, t))

IntersectionNew(t, point, normal, material) ==
    [t |-> t, point |-> point, normal |-> normal, material |-> material]

\* --------------------------------------------------------- Sphere, Light

SphereNew(center, radius, material) ==
    [center |-> center, radius |-> radius, material |-> material]

LightNew(center, radius, emission) ==
    [center |-> center, radius |-> radius, emission |-> emission]

\* The roots taken whatever their sign.
SphereIntersectAnySign(sphere, ray) ==
    LET oc == VSub(ray.origin, sphere.center)
        d  == ray.direction
        a  == Dot(d, d)
        b  == 2 * Dot(oc, d)
        c  == LengthSquared(oc) - sphere.radius * sphere.radius
        discriminant == b * b - FMul(FMul(4 * ONE, a), c)
    IN  IF discriminant < 0 THEN None
        ELSE IF a = 0 THEN None
        ELSE LET sqrt_disc == Sqrt(discriminant)
                 t1 == FDiv(-b - sqrt_disc, FMul(2 * ONE, a))
                 t2 == FDiv(-b + sqrt_disc, FMul(2 * ONE, a))
             IN  IF FALSE THEN None
                 ELSE LET t      == IF t1 > 0 THEN t1 ELSE t2
                          point  == RayAt(ray, t)
                          normal == Normalize(VSub(point, sphere.center))
                      IN  IntersectionNew(t, point, normal, sphere.material)

\* The larger root taken whenever it is positive.
SphereIntersectFarRoot(sphere, ray) ==
    LET oc == VSub(ray.origin, sphere.center)
        d  == ray.direction
        a  == Dot(d, d)
        b  == 2 * Dot(oc, d)
        c  == LengthSquared(oc) - sphere.radius * sphere.radius
        discriminant == b * b - FMul(FMul(4 * ONE, a), c)
    IN  IF discriminant < 0 THEN None
        ELSE IF a = 0 THEN None
        ELSE LET sqrt_disc == Sqrt(discriminant)
                 t1 == FDiv(-b - sqrt_disc, FMul(2 * ONE, a))
                 t2 == FDiv(-b + sqrt_disc, FMul(2 * ONE, a))
             IN  IF t1 <= 0 /\ t2 <= 0 THEN None
                 ELSE LET t      == IF t2 > 0 THEN t2 ELSE t1
                          point  == RayAt(ray, t)
                          normal == Normalize(VSub(point, sphere.center))
                      IN  IntersectionNew(t, point, normal, sphere.material)

\* Sphere::intersect. A direction of length 0 makes a and b zero, so both
\* roots are 0/0 = NaN, neither is > 0, and there is no hit.
SphereIntersect(sphere, ray) ==
    LET oc == VSub(ray.origin, sphere.center)
        d  == ray.direction
        a  == Dot(d, d)
        b  == 2 * Dot(oc, d)
        c  == LengthSquared(oc) - sphere.radius * sphere.radius
        discriminant == b * b - FMul(FMul(4 * ONE, a), c)
    IN  IF discriminant < 0 THEN None
        ELSE IF a = 0 THEN None
        ELSE LET sqrt_disc == Sqrt(discriminant)
                 t1 == FDiv(-b - sqrt_disc, FMul(2 * ONE, a))
                 t2 == FDiv(-b + sqrt_disc, FMul(2 * ONE, a))
             IN  IF t1 <= 0 /\ t2 <= 0 THEN None
                 ELSE LET t      == IF t1 > 0 THEN t1 ELSE t2
                          point  == RayAt(ray, t)
                          normal == Normalize(VSub(point, sphere.center))
                      IN  IntersectionNew(t, point, normal, sphere.material)

DummyMaterial == MaterialNew(Black, 0, 0, 0, ONE, Black)

\* The intersection by the smaller root alone.
LightIntersectNearOnly(light, ray) ==
    LET oc == VSub(ray.origin, light.center)
        d  == ray.direction
        a  == Dot(d, d)
        b  == 2 * Dot(oc, d)
        c  == LengthSquared(oc) - light.radius * light.radius
        discriminant == b * b - FMul(FMul(4 * ONE, a), c)
    IN  IF discriminant < 0 THEN None
        ELSE IF a = 0 THEN None
        ELSE LET sqrt_disc == Sqrt(discriminant)
                 t1 == FDiv(-b - sqrt_disc, FMul(2 * ONE, a))
                 t2 == FDiv(-b + sqrt_disc, FMul(2 * ONE, a))
             IN  IF t1 <= 0 THEN None
                 ELSE LET t      == IF t1 > 0 THEN t1 ELSE t2
                          point  == RayAt(ray, t)
                          normal == Normalize(VSub(point, light.center))
                      IN  IntersectionNew(t, point, normal, DummyMaterial)

\* Light::intersect
LightIntersect(light, ray) ==
    LET oc == VSub(ray.origin, light.center)
        d  == ray.direction
        a  == Dot(d, d)
        b  == 2 * Dot(oc, d)
        c  == LengthSquared(oc) - light.radius * light.radius
        discriminant == b * b - FMul(FMul(4 * ONE, a), c)
    IN  IF discriminant < 0 THEN None
        ELSE IF a = 0 THEN None
        ELSE LET sqrt_disc == Sqrt(discriminant)
                 t1 == FDiv(-b - sqrt_disc, FMul(2 * ONE, a))
                 t2 == FDiv(-b + sqrt_disc, FMul(2 * ONE, a))
             IN  IF t1 <= 0 /\ t2 <= 0 THEN None
                 ELSE LET t      == IF t1 > 0 THEN t1 ELSE t2
                          point  == RayAt(ray, t)
                          normal == Normalize(VSub(point, light.center))
                      IN  IntersectionNew(t, point, normal, DummyMaterial)

\* ---------------------------------------------------------------- RayTracer

\* Beer's law: exp(-absorption * distance) per channel.
Attenuation(absorption, distance) ==
    Color(Exp(-(absorption.r * distance)),
          Exp(-(absorption.g * distance)),
          Exp(-(absorption.b * distance)))

\* The loop keeping the last of the hits of least t.
RECURSIVE ClosestFromKeepLast(_, _, _, _)
ClosestFromKeepLast(ray, surfs, i, closest) ==
    IF i > Len(surfs) THEN closest
    ELSE LET intersection == SphereIntersect(surfs[i], ray)
         IN  IF /\ intersection # None
                /\ intersection.t > EPS
                /\ (closest = None \/ intersection.t <= closest.t)
             THEN ClosestFromKeepLast(ray, surfs, i + 1, intersection)
             ELSE ClosestFromKeepLast(ray, surfs, i + 1, closest)

\* The loop of find_closest_intersection from surface i on; closest is the
\* hit kept so far (None while closest_t is INFINITY).
RECURSIVE ClosestFrom(_, _, _, _)
ClosestFrom(ray, surfs, i, closest) ==
    IF i > Len(surfs) THEN closest
    ELSE LET intersection == SphereIntersect(surfs[i], ray)
         IN  IF /\ intersection # None
                /\ intersection.t > EPS
                /\ (closest = None \/ intersection.t < closest.t)
             THEN ClosestFrom(ray, surfs, i + 1, intersection)
             ELSE ClosestFrom(ray, surfs, i + 1, closest)

FindClosestIntersection(ray, surfs) == ClosestFrom(ray, surfs, 1, None)

\* The loop over the lights in trace_ray_recursive from light i on; closest
\* is None or the pair (light_intersection, light_idx) kept so far.
RECURSIVE ClosestLightFrom(_, _, _, _)
ClosestLightFrom(ray, lts, i, closest) ==
    IF i > Len(lts) THEN closest
    ELSE LET light_intersection == LightIntersect(lts[i], ray)
         IN  IF /\ light_intersection # None
                /\ light_intersection.t > EPS
                /\ (closest = None \/ light_intersection.t < closest.hit.t)
             THEN ClosestLightFrom(ray, lts, i + 1,
                                   [hit |-> light_intersection, idx |-> i])
             ELSE ClosestLightFrom(ray, lts, i + 1, closest)

FindClosestLight(ray, lts) == ClosestLightFrom(ray, lts, 1, None)

\* The test with a light at the distance of the surface taken as closer.
LightFirstOrEqual(closest_intersection, closest_light_intersection) ==
    /\ closest_light_intersection # None
    /\ \/ closest_intersection = None
       \/ closest_light_intersection.hit.t <= closest_intersection.t

\* The test of trace_ray_recursive that the ray hit a light first.
LightFirst(closest_intersection, closest_light_intersection) ==
    /\ closest_light_intersection # None
    /\ \/ closest_intersection = None
       \/ closest_light_intersection.hit.t < closest_intersection.t

\* The shadow ray of compute_direct_light.
ShadowRay(intersection, light) ==
    LET to_light == Normalize(VSub(light.center, intersection.point))
        shadow_origin == VAdd(intersection.point, VScale(to_light, OFFSET_EPS))
    IN  RayNew(shadow_origin, to_light)

\* The shadow loop with the self-intersection epsilon on the shadow hit.
BlockedBeyondEpsilon(intersection, light, surfs) ==
    \E k \in 1..Len(surfs) :
        LET shadow_hit == SphereIntersect(surfs[k], ShadowRay(intersection, light))
            dist_to_light == Length(VSub(light.center, intersection.point))
        IN  /\ shadow_hit # None
            /\ shadow_hit.t > EPS
            /\ shadow_hit.t < dist_to_light - EPS

\* The shadow loop that lets transmitting surfaces cast no shadow.
BlockedByOpaque(intersection, light, surfs) ==
    \E k \in 1..Len(surfs) :
        LET shadow_hit == SphereIntersect(surfs[k], ShadowRay(intersection, light))
            dist_to_light == Length(VSub(light.center, intersection.point))
        IN  /\ shadow_hit # None
            /\ shadow_hit.material.transmission_rate = 0
            /\ shadow_hit.t < dist_to_light - EPS

\* The shadow loop of compute_direct_light: some surface is hit by the
\* shadow ray before the light.
Blocked(intersection, light, surfs) ==
    \E k \in 1..Len(surfs) :
        LET shadow_hit == SphereIntersect(surfs[k], ShadowRay(intersection, light))
            dist_to_light == Length(VSub(light.center, intersection.point))
        IN  /\ shadow_hit # None
            /\ shadow_hit.t < dist_to_light - EPS

\* The Lambert term of a light on either side of the surface.
ComputeDirectLightTwoSided(intersection, light, material, surfs) ==
    LET to_light == Normalize(VSub(light.center, intersection.point))
        cos_theta == Dot(to_light, intersection.normal)
    IN  IF Blocked(intersection, light, surfs) THEN Black
        ELSE CScale(CMul(material.albedo, light.emission),
                    FMul(cos_theta, material.diffuse_rate))

ComputeDirectLight(intersection, light, material, surfs) ==
    LET to_light == Normalize(VSub(light.center, intersection.point))
        cos_theta == Dot(to_light, intersection.normal)
    IN  IF cos_theta <= 0 THEN Black
        ELSE IF Blocked(intersection, light, surfs) THEN Black
        ELSE CScale(CMul(material.albedo, light.emission),
                    FMul(cos_theta, material.diffuse_rate))

\* The loop keeping the last light's colour instead of the sum.
RECURSIVE DirectFromLastOnly(_, _, _, _, _)
DirectFromLastOnly(intersection, lts, surfs, i, direct_color) ==
    IF i > Len(lts) THEN direct_color
    ELSE DirectFromLastOnly(intersection, lts, surfs, i + 1,
                            ComputeDirectLight(intersection, lts[i],
                                               intersection.material, surfs))

\* The loop over the lights that sums the direct colour, from light i on.
RECURSIVE DirectFrom(_, _, _, _, _)
DirectFrom(intersection, lts, surfs, i, direct_color) ==
    IF i > Len(lts) THEN direct_color
    ELSE DirectFrom(intersection, lts, surfs, i + 1,
                    CAdd(direct_color,
                         ComputeDirectLight(intersection, lts[i],
                                            intersection.material, surfs)))

DirectColor(intersection, lts, surfs) ==
    DirectFrom(intersection, lts, surfs, 1, Black)

\* One BranchedRay.
BranchedRay(ray, weight, passing_material) ==
    [ray |-> ray, weight |-> weight, passing_material |-> passing_material]

\* is_entering of branch_rays.
IsEntering(ray, intersection) == Dot(ray.direction, intersection.normal) < 0

\* The normal never flipped.
EffectiveNormalUnflipped(ray, intersection) == intersection.normal

\* The normal branch_rays works with: the geometric normal when entering,
\* its negation otherwise.
EffectiveNormal(ray, intersection) ==
    IF IsEntering(ray, intersection) THEN intersection.normal
    ELSE VNeg(intersection.normal)

\* sin_t_sq of branch_rays.
SinTSq(ray, intersection, incoming_material, vacuum) ==
    LET surface_material == intersection.material
        normal == EffectiveNormal(ray, intersection)
        ratio  == IF IsEntering(ray, intersection)
                  THEN FDiv(incoming_material.refractive_index,
                            surface_material.refractive_index)
                  ELSE FDiv(surface_material.refractive_index,
                            vacuum.refractive_index)
        cos_i  == -Dot(ray.direction, normal)
    IN  FMul(FMul(ratio, ratio), ONE - FMul(cos_i, cos_i))

\* The transmission block leaves the transmitted energy to the specular
\* branch: total internal reflection.
IsTIR(ray, intersection, incoming_material, vacuum) ==
    /\ intersection.material.transmission_rate > RATE_EPS
    /\ SinTSq(ray, intersection, incoming_material, vacuum) > ONE

\* The diffuse push along the geometric normal.
DiffuseBranchUnflipped(ray, intersection, incoming_material) ==
    LET surface_material == intersection.material
        normal == intersection.normal
    IN  IF surface_material.diffuse_rate > RATE_EPS
        THEN << BranchedRay(
                  RayNew(VAdd(intersection.point, VScale(normal, OFFSET_EPS)),
                         normal),
                  surface_material.diffuse_rate,
                  incoming_material) >>
        ELSE << >>

DiffuseBranch(ray, intersection, incoming_material) ==
    LET surface_material == intersection.material
        normal == EffectiveNormal(ray, intersection)
    IN  IF surface_material.diffuse_rate > RATE_EPS
        THEN << BranchedRay(
                  RayNew(VAdd(intersection.point, VScale(normal, OFFSET_EPS)),
                         normal),
                  surface_material.diffuse_rate,
                  incoming_material) >>
        ELSE << >>

\* The transmission block taking the index ratio of an exiting ray against
\* the medium the ray came through.
TransmissionBranchIncomingRatio(ray, intersection, incoming_material, vacuum) ==
    LET surface_material == intersection.material
        is_entering == IsEntering(ray, intersection)
        normal == EffectiveNormal(ray, intersection)
        ratio  == IF is_entering
                  THEN FDiv(incoming_material.refractive_index,
                            surface_material.refractive_index)
                  ELSE FDiv(surface_material.refractive_index,
                            incoming_material.refractive_index)
        cos_i  == -Dot(ray.direction, normal)
        sin_t_sq == FMul(FMul(ratio, ratio), ONE - FMul(cos_i, cos_i))
    IN  IF surface_material.transmission_rate > RATE_EPS /\ ~(sin_t_sq > ONE)
        THEN LET cos_t == Sqrt((ONE - sin_t_sq) * ONE)
                 refracted == VAdd(VScale(ray.direction, ratio),
                                   VScale(normal, FMul(ratio, cos_i) - cos_t))
                 ray_origin == VSub(intersection.point,
                                    VScale(normal, OFFSET_EPS))
                 next_material == IF is_entering THEN surface_material
                                  ELSE vacuum
             IN  << BranchedRay(RayNew(ray_origin, refracted),
                                surface_material.transmission_rate,
                                next_material) >>
        ELSE << >>

\* The transmitted branch of a ray that stays in the medium it was in when
\* it leaves a surface.
TransmissionBranchKeepsMedium(ray, intersection, incoming_material, vacuum) ==
    LET surface_material == intersection.material
        is_entering == IsEntering(ray, intersection)
        normal == EffectiveNormal(ray, intersection)
        ratio  == IF is_entering
                  THEN FDiv(incoming_material.refractive_index,
                            surface_material.refractive_index)
                  ELSE FDiv(surface_material.refractive_index,
                            vacuum.refractive_index)
        cos_i  == -Dot(ray.direction, normal)
        sin_t_sq == FMul(FMul(ratio, ratio), ONE - FMul(cos_i, cos_i))
    IN  IF surface_material.transmission_rate > RATE_EPS /\ ~(sin_t_sq > ONE)
        THEN LET cos_t == Sqrt((ONE - sin_t_sq) * ONE)
                 refracted == VAdd(VScale(ray.direction, ratio),
                                   VScale(normal, FMul(ratio, cos_i) - cos_t))
                 ray_origin == VSub(intersection.point,
                                    VScale(normal, OFFSET_EPS))
                 next_material == IF is_entering THEN surface_material
                                  ELSE incoming_material
             IN  << BranchedRay(RayNew(ray_origin, refracted),
                                surface_material.transmission_rate,
                                next_material) >>
        ELSE << >>

TransmissionBranch(ray, intersection, incoming_material, vacuum) ==
    LET surface_material == intersection.material
        is_entering == IsEntering(ray, intersection)
        normal == EffectiveNormal(ray, intersection)
        ratio  == IF is_entering
                  THEN FDiv(incoming_material.refractive_index,
                            surface_material.refractive_index)
                  ELSE FDiv(surface_material.refractive_index,
                            vacuum.refractive_index)
        cos_i  == -Dot(ray.direction, normal)
        sin_t_sq == FMul(FMul(ratio, ratio), ONE - FMul(cos_i, cos_i))
    IN  IF surface_material.transmission_rate > RATE_EPS /\ ~(sin_t_sq > ONE)
        THEN LET cos_t == Sqrt((ONE - sin_t_sq) * ONE)
                 refracted == VAdd(VScale(ray.direction, ratio),
                                   VScale(normal, FMul(ratio, cos_i) - cos_t))
                 ray_origin == VSub(intersection.point,
                                    VScale(normal, OFFSET_EPS))
                 next_material == IF is_entering THEN surface_material
                                  ELSE vacuum
             IN  << BranchedRay(RayNew(ray_origin, refracted),
                                surface_material.transmission_rate,
                                next_material) >>
        ELSE << >>

\* specular_weight with the folded sum clamped to 1.
SpecularWeightClamped(ray, intersection, incoming_material, vacuum) ==
    IF IsTIR(ray, intersection, incoming_material, vacuum)
    THEN Min(intersection.material.specular_rate
               + intersection.material.transmission_rate, ONE)
    ELSE intersection.material.specular_rate

\* specular_weight of branch_rays after the transmission block.
SpecularWeight(ray, intersection, incoming_material, vacuum) ==
    IF IsTIR(ray, intersection, incoming_material, vacuum)
    THEN intersection.material.specular_rate
         + intersection.material.transmission_rate
    ELSE intersection.material.specular_rate

\* The specular push decided by specular_rate alone.
SpecularBranchByRate(ray, intersection, incoming_material, vacuum) ==
    LET normal == EffectiveNormal(ray, intersection)
        specular_weight ==
            SpecularWeight(ray, intersection, incoming_material, vacuum)
    IN  IF intersection.material.specular_rate > RATE_EPS
        THEN LET reflected ==
                     VSub(ray.direction,
                          VScale(VScale(normal, 2 * ONE),
                                 Dot(ray.direction, normal)))
                 ray_origin == VAdd(intersection.point,
                                    VScale(normal, OFFSET_EPS))
             IN  << BranchedRay(RayNew(ray_origin, reflected),
                                specular_weight, incoming_material) >>
        ELSE << >>

SpecularBranch(ray, intersection, incoming_material, vacuum) ==
    LET normal == EffectiveNormal(ray, intersection)
        specular_weight ==
            SpecularWeight(ray, intersection, incoming_material, vacuum)
    IN  IF specular_weight > RATE_EPS
        THEN LET reflected ==
                     VSub(ray.direction,
                          VScale(VScale(normal, 2 * ONE),
                                 Dot(ray.direction, normal)))
                 ray_origin == VAdd(intersection.point,
                                    VScale(normal, OFFSET_EPS))
             IN  << BranchedRay(RayNew(ray_origin, reflected),
                                specular_weight, incoming_material) >>
        ELSE << >>

\* The transmitted energy of a total internal reflection pushed as a
\* specular branch of its own.
BranchRaysFoldApart(ray, intersection, incoming_material, vacuum) ==
    DiffuseBranch(ray, intersection, incoming_material)
    \o TransmissionBranch(ray, intersection, incoming_material, vacuum)
    \o SpecularBranchByRate(ray, intersection, incoming_material, vacuum)
    \o (IF /\ intersection.material.transmission_rate > RATE_EPS
           /\ IsTIR(ray, intersection, incoming_material, vacuum)
        THEN << BranchedRay(ray, intersection.material.transmission_rate,
                            incoming_material) >>
        ELSE << >>)

\* branch_rays pushes the diffuse branch, then the transmitted one, then
\* the specular one.
BranchRays(ray, intersection, incoming_material, vacuum) ==
    DiffuseBranch(ray, intersection, incoming_material)
    \o TransmissionBranch(ray, intersection, incoming_material, vacuum)
    \o SpecularBranch(ray, intersection, incoming_material, vacuum)

\* ------------------------------------------------------------ scene inputs

\* Material::perfect_mirror()
PerfectMirror == Mirror(White, ONE)

\* Material::metal(albedo, specular_rate, diffuse_rate)
Metal(albedo, specular_rate, diffuse_rate) ==
    MaterialNew(albedo, diffuse_rate, specular_rate, 0, ONE, Black)

\* A metal that scatters half and reflects a quarter of the light.
Bronze == Metal(Color(800, 400, 200), 250, 500)

\* A transmitting, absorbing and slightly scattering dielectric, after the
\* glasses of main.rs.
Glass == MaterialNew(Color(300, 600, 900), 100, 0, 900, 1500, Color(10, 20, 40))

\* The vacuum of the tests of raytracer.rs.
Vacuum == MaterialNew(Black, 0, 0, ONE, ONE, Black)

\* An absorbing ambient medium.
Fog == MaterialNew(Black, 0, 0, ONE, ONE, Color(5, 10, 20))

\* The surfaces a scene is built from: spheres on the z axis, by centre,
\* radius and material.
SpherePalette ==
    << SphereNew(Vec3(0, 0, 20), 5, PerfectMirror),
       SphereNew(Vec3(0, 0, 25), 10, Bronze),
       SphereNew(Vec3(0, 0, -4), 8, Glass),
       SphereNew(Vec3(0, 0, -30), 5, PerfectMirror),
       SphereNew(Vec3(0, 0, -30), 5, Bronze) >>

\* The lights a scene is built from.
LightPalette ==
    << LightNew(Vec3(0, 0, -17), 3, Color(2000, 1000, 500)),
       LightNew(Vec3(30, 0, -25), 5, Color(1000, 2000, 4000)),
       LightNew(Vec3(0, 0, 20), 5, White) >>

\* The primary rays the camera supplies.
PrimaryRays ==
    { RayNew(Vec3(0, 0, 8), Vec3(0, 0, 3)),
      RayNew(Vec3(0, 0, 8), Vec3(0, 0, -2)) }

\* The scene lists of at most n entries of a palette: every selection, in
\* the order of the palette and in the reverse order, so that any two
\* entries are listed both ways round.
SceneLists(palette, n) ==
    LET Forward(I) ==
            [k \in 1..Cardinality(I) |->
                palette[CHOOSE i \in I : Cardinality({ j \in I : j < i }) = k - 1]]
        Reverse(s) == [k \in 1..Len(s) |-> s[Len(s) + 1 - k]]
    IN  UNION { { Forward(I), Reverse(Forward(I)) } :
                I \in { J \in SUBSET (1..Len(palette)) : Cardinality(J) <= n } }

\* ------------------------------------------------------------------ state

VARIABLES
    surfaces,           \* the scene's surfaces, read-only during a render
    lights,             \* the scene's lights, read-only during a render
    background_color,   \* RayTracer.background_color
    max_depth,          \* RayTracer.max_depth
    min_weight,         \* RayTracer.min_weight
    vacuum_material,    \* RayTracer.vacuum_material
    stack,              \* the active calls of trace_ray_recursive, outermost first
    ret,                \* the call of trace_ray_recursive that has just returned, else None
    color,              \* the value trace_ray returned, None before it returns
    calls               \* calls of trace_ray_recursive since trace_ray was called

VARIABLES
    num_cores,          \* main: what available_parallelism returned
    next_frame,         \* main: the index of the next frame to spawn
    handles,            \* main: the frame indexes of the entries of handles, in order
    is_done,            \* the AtomicBool of each frame's thread
    threads,            \* where each frame's thread is: "unspawned", "frame", "store", "ended", "panicked"
    main_pc,            \* where main is in its loop: "while", "retain", "if", "sleep", "exited"
    retain_idx,         \* the entry of handles retain_mut looks at next
    spawned             \* the frame indexes passed to thread::spawn, in order

main == << num_cores, next_frame, handles, is_done, threads, main_pc,
           retain_idx, spawned >>

vars == << surfaces, lights, background_color, max_depth, min_weight,
           vacuum_material, stack, ret, color, calls, main >>

config == << surfaces, lights, background_color, max_depth, min_weight,
             vacuum_material >>

\* let frames: usize = fps as usize * 5, reduced to MaxFrames.
frames == MaxFrames

\* The frame indexes.
FrameIdx == 0..(frames - 1)

\* main before its loop, given what available_parallelism returned.
MainStarts(cores) ==
    /\ num_cores = cores
    /\ next_frame = 0
    /\ handles = << >>
    /\ is_done = [f \in FrameIdx |-> FALSE]
    /\ threads = [f \in FrameIdx |-> "unspawned"]
    /\ main_pc = "while"
    /\ retain_idx = 1
    /\ spawned = << >>

\* A call of trace_ray_recursive at its entry.
Frame(ray, depth, current_weight, passing_material) ==
    [ray              |-> ray,
     depth            |-> depth,
     current_weight   |-> current_weight,
     passing_material |-> passing_material,
     pc               |-> "entry",
     queries          |-> 0,
     direct_evals     |-> 0,
     closest_intersection       |-> None,
     closest_light_intersection |-> None,
     attenuation      |-> None,
     direct_terms     |-> << >>,
     direct_color     |-> None,
     branched_rays    |-> << >>,
     next             |-> 1,
     contributions    |-> << >>,
     indirect_color   |-> Black]

Init ==
    /\ surfaces \in SceneLists(SpherePalette, MaxSurfaces)
    /\ lights \in SceneLists(LightPalette, MaxLights)
    /\ background_color \in {Color(100, 200, 300)}
    /\ max_depth \in 1..MaxDepthBound
    /\ min_weight \in {1, 600}
    /\ vacuum_material \in {Vacuum, Fog}
    /\ stack = << >>
    /\ ret = None
    /\ color = None
    /\ calls = 0
    /\ MainStarts(1)

Top == stack[Len(stack)]

\* trace_ray: the first call of trace_ray_recursive.
TraceRay ==
    /\ stack = << >>
    /\ \E ray \in PrimaryRays :
           stack' = << Frame(ray, 0, ONE, vacuum_material) >>
    /\ ret' = None
    /\ color' = None
    /\ calls' = 1
    /\ UNCHANGED << main, config, main >>

\* The stack after the innermost call returned value to its caller: the
\* caller adds the contribution of the branch it was tracing.
Returned(value) ==
    IF Len(stack) = 1 THEN << >>
    ELSE LET caller   == stack[Len(stack) - 1]
             branched == caller.branched_rays[caller.next]
             material == caller.closest_intersection.material
         IN  [stack EXCEPT
                 ![Len(stack) - 1] =
                     [caller EXCEPT
                         !.pc = "branch",
                         !.next = caller.next + 1,
                         !.contributions = Append(caller.contributions, value),
                         !.indirect_color =
                             CAdd(caller.indirect_color,
                                  CScale(CMul(material.albedo, value),
                                         branched.weight))]]
             \* the callee's frame is dropped below

Return(frame, kind, value) ==
    /\ stack' = (IF Len(stack) = 1 THEN << >>
                 ELSE SubSeq(Returned(value), 1, Len(stack) - 1))
    /\ ret' = [call |-> frame, kind |-> kind, color |-> value]
    /\ color' = (IF Len(stack) = 1 THEN value ELSE color)

\* The check with the depth test off by one: depth > max_depth.
TerminatedOffByOne(depth, current_weight) ==
    depth > max_depth \/ current_weight < min_weight

\* The check without the depth test.
TerminatedByWeightOnly(depth, current_weight) ==
    current_weight < min_weight

\* The check against a count of the calls made so far instead of the depth
\* parameter.
TerminatedByCalls(depth, current_weight) ==
    calls > max_depth \/ current_weight < min_weight

\* The termination check of trace_ray_recursive.
Terminated(depth, current_weight) ==
    depth >= max_depth \/ current_weight < min_weight

\* What a terminated call returns.
TerminatedColor == background_color

\* A miss that returns black.
NoHitColorBlack == Black

\* A miss that weights the background colour.
NoHitColorWeighted == CScale(background_color, stack[Len(stack)].current_weight)

\* What a call returns whose ray hit nothing.
NoHitColor == background_color

\* The attenuation computed from the absorption of the surface hit.
StepAttenuationOfSurface(passing_material, intersection) ==
    Attenuation(intersection.material.absorption, intersection.t)

\* The attenuation of a call over the distance to the hit.
StepAttenuation(passing_material, intersection) ==
    Attenuation(passing_material.absorption, intersection.t)

\* Entry of trace_ray_recursive: the termination check.
Enter ==
    /\ stack # << >>
    /\ Top.pc = "entry"
    /\ IF Terminated(Top.depth, Top.current_weight)
       THEN Return(Top, "terminated", TerminatedColor)
       ELSE /\ stack' = [stack EXCEPT ![Len(stack)].pc = "scan"]
            /\ ret' = None
            /\ UNCHANGED color
    /\ UNCHANGED << main, config, calls >>

\* The colour of a ray that hit a light first.
LightColor(light, light_intersection, passing_material, current_weight) ==
    CScale(CMul(light.emission,
                StepAttenuation(passing_material, light_intersection)),
           current_weight)

\* trace_ray_recursive from the closest-hit searches to the branching: it
\* returns on a light hit and on no hit, and otherwise computes the
\* attenuation, the direct colour and the branches.
Scan ==
    /\ stack # << >>
    /\ Top.pc = "scan"
    /\ LET closest_intersection == FindClosestIntersection(Top.ray, surfaces)
           closest_light_intersection == FindClosestLight(Top.ray, lights)
           scanned == [Top EXCEPT
                          !.queries = Len(surfaces) + Len(lights),
                          !.closest_intersection = closest_intersection,
                          !.closest_light_intersection =
                              closest_light_intersection]
       IN  IF LightFirst(closest_intersection, closest_light_intersection)
           THEN Return(scanned, "light",
                       LightColor(lights[closest_light_intersection.idx],
                                  closest_light_intersection.hit,
                                  Top.passing_material, Top.current_weight))
           ELSE IF closest_intersection = None
           THEN Return(scanned, "background", NoHitColor)
           ELSE /\ stack' =
                       [stack EXCEPT ![Len(stack)] =
                           [scanned EXCEPT
                               !.pc = "branch",
                               !.attenuation =
                                   StepAttenuation(Top.passing_material,
                                                   closest_intersection),
                               !.direct_evals = Len(lights),
                               !.direct_terms =
                                   [i \in 1..Len(lights) |->
                                       ComputeDirectLight(
                                           closest_intersection, lights[i],
                                           closest_intersection.material,
                                           surfaces)],
                               !.direct_color =
                                   DirectColor(closest_intersection, lights,
                                               surfaces),
                               !.branched_rays =
                                   BranchRays(Top.ray, closest_intersection,
                                              Top.passing_material,
                                              vacuum_material)]]
                /\ ret' = None
                /\ UNCHANGED color
    /\ UNCHANGED << main, config, calls >>

\* The loop over the branches: the recursive call for the next branch.
Recurse ==
    /\ stack # << >>
    /\ Top.pc = "branch"
    /\ Top.next <= Len(Top.branched_rays)
    /\ LET branched == Top.branched_rays[Top.next]
           weight   == FMul(Top.current_weight, branched.weight)
       IN  stack' = Append([stack EXCEPT ![Len(stack)].pc = "call"],
                           Frame(branched.ray, Top.depth + 1, weight,
                                 branched.passing_material))
    /\ calls' = calls + 1
    /\ ret' = None
    /\ UNCHANGED << main, config, color >>

\* The result scaled by the weight of the call as well.
SurfaceColorWeighted(direct_color, indirect_color, attenuation) ==
    CScale(CMul(CAdd(direct_color, indirect_color), attenuation),
           Top.current_weight)

\* The result of a surface hit.
SurfaceColor(direct_color, indirect_color, attenuation) ==
    CMul(CAdd(direct_color, indirect_color), attenuation)

\* After the last branch: the surface's colour is returned.
Finish ==
    /\ stack # << >>
    /\ Top.pc = "branch"
    /\ Top.next > Len(Top.branched_rays)
    /\ Return(Top, "surface",
              SurfaceColor(Top.direct_color, Top.indirect_color,
                           Top.attenuation))
    /\ UNCHANGED << main, config, calls >>

Next == TraceRay \/ Enter \/ Scan \/ Recurse \/ Finish

Spec == Init /\ [][Next]_vars

\* ----------------------------------------------------------------- claims

\* The call that has just returned got past the termination check.
Scanned == ret # None /\ ret.kind # "terminated"

\* The call that has just returned hit a surface.
SurfaceHit == ret # None /\ ret.kind = "surface"

\* The surfaces (by index) a ray hits beyond the epsilon, and the lights.
SurfaceHits(ray) ==
    LET hit == [k \in 1..Len(surfaces) |-> SphereIntersect(surfaces[k], ray)]
    IN  { k \in 1..Len(surfaces) : hit[k] # None /\ hit[k].t > EPS }

LightHits(ray) ==
    LET hit == [i \in 1..Len(lights) |-> LightIntersect(lights[i], ray)]
    IN  { i \in 1..Len(lights) : hit[i] # None /\ hit[i].t > EPS }

SurfaceT(ray, k) == SphereIntersect(surfaces[k], ray).t

LightT(ray, i) == LightIntersect(lights[i], ray).t

\* The first surface among those of least t, and the first such light.
FirstSurface(ray) ==
    LET hits == SurfaceHits(ray)
        t    == [k \in hits |-> SurfaceT(ray, k)]
    IN  CHOOSE k \in hits :
            \A j \in hits : t[k] < t[j] \/ (t[k] = t[j] /\ k <= j)

FirstLight(ray) ==
    LET hits == LightHits(ray)
        t    == [i \in hits |-> LightT(ray, i)]
    IN  CHOOSE i \in hits :
            \A j \in hits : t[i] < t[j] \/ (t[i] = t[j] /\ i <= j)

\* C1: the termination check (depth >= max_depth or current_weight <
\* min_weight) comes before every scene query: a call that is past its entry
\* has passed the check, a call at its entry has queried nothing, and a call
\* for which the check holds returns background_color as it is, having made
\* no scene query, no direct-light evaluation, no branch and no recursion.
C1_TerminationCheckFirst ==
    /\ \A k \in 1..Len(stack) :
           /\ stack[k].pc # "entry" =>
                  /\ stack[k].depth < max_depth
                  /\ stack[k].current_weight >= min_weight
           /\ stack[k].pc = "entry" =>
                  /\ stack[k].queries = 0
                  /\ stack[k].direct_evals = 0
                  /\ stack[k].branched_rays = << >>
    /\ ret # None =>
           /\ ret.kind = "terminated" <=>
                  \/ ret.call.depth >= max_depth
                  \/ ret.call.current_weight < min_weight
           /\ ret.kind = "terminated" =>
                  /\ ret.color = background_color
                  /\ ret.call.queries = 0
                  /\ ret.call.direct_evals = 0
                  /\ ret.call.branched_rays = << >>
                  /\ ret.call.next = 1

\* C1 witness: a call at depth max_depth, of weight below 1 and in an
\* absorbing medium, has returned the background colour.
C1_Witness ==
    /\ ret # None
    /\ ret.kind = "terminated"
    /\ ret.call.depth = max_depth
    /\ ret.call.current_weight < ONE
    /\ ret.call.current_weight >= min_weight
    /\ ret.call.passing_material.absorption # Black
    /\ ret.color = background_color

\* Every surface of the scene reflects all light and does nothing else:
\* each hit emits the specular branch alone.
FullyMirrored ==
    \A k \in 1..Len(surfaces) :
        /\ surfaces[k].material.specular_rate = ONE
        /\ surfaces[k].material.diffuse_rate = 0
        /\ surfaces[k].material.transmission_rate = 0

\* 3^0 + ... + 3^n: the calls of a recursion of depth n with at most three
\* branches per call.
RECURSIVE CallBound(_)
CallBound(n) == IF n = 0 THEN 1 ELSE 1 + 3 * CallBound(n - 1)

\* C2: trace_ray terminates.  The depth of a call never exceeds max_depth
\* (the k-th nested call has depth k - 1), the calls one primary ray causes
\* are bounded by max_depth alone, in a trace that has not returned the
\* innermost call is at a step it can take and every other call waits for
\* one of its branches (no panic, no hang), and in a fully mirrored scene
\* the recursive calls under the first one number at most max_depth.
C2_Termination ==
    /\ \A k \in 1..Len(stack) :
           /\ stack[k].depth = k - 1
           /\ stack[k].depth <= max_depth
    /\ calls <= CallBound(max_depth)
    /\ stack # << >> =>
           /\ Top.pc \in {"entry", "scan", "branch"}
           /\ \A k \in 1..(Len(stack) - 1) :
                  /\ stack[k].pc = "call"
                  /\ stack[k].next \in 1..Len(stack[k].branched_rays)
    /\ FullyMirrored => calls - 1 <= max_depth

\* C2 witness: a primary ray between two mirrors has returned after
\* max_depth recursive calls, with max_depth at its largest.
C2_Witness ==
    /\ Len(surfaces) = 2
    /\ FullyMirrored
    /\ max_depth = MaxDepthBound
    /\ color # None
    /\ calls - 1 = max_depth

\* C3: in a scene without surfaces and without lights trace_ray returns
\* exactly background_color, whatever the ray and the configuration.
C3_EmptyScene ==
    (surfaces = << >> /\ lights = << >> /\ color # None) =>
        color = background_color

\* C3 witness: a trace of the empty scene has returned, the ambient medium
\* absorbing.
C3_Witness ==
    /\ surfaces = << >>
    /\ lights = << >>
    /\ color # None
    /\ vacuum_material.absorption # Black
    /\ ret.call.depth = 0
    /\ ret.kind = "background"

\* exp(-absorption * t) of the three channels, each from its own
\* coefficient.
BeerLaw(absorption, t) ==
    [r |-> Exp(-(absorption.r * t)),
     g |-> Exp(-(absorption.g * t)),
     b |-> Exp(-(absorption.b * t))]

\* C4: a call past the termination check returns as a light hit exactly
\* when a light is hit at t > 1e-5 strictly before every surface hit (or no
\* surface is hit); it then returns emission * Beer's-law attenuation *
\* current_weight, having evaluated no direct light, generated no branch
\* and made no recursive call.  At equal t the surface wins.
C4_LightHit ==
    Scanned =>
        LET call == ret.call
            ray  == call.ray
            light_hits   == LightHits(ray)
            surface_hits == SurfaceHits(ray)
            first        == FirstLight(ray)
        IN  /\ ret.kind = "light" <=>
                   /\ light_hits # {}
                   /\ \A k \in surface_hits :
                          LightT(ray, first) < SurfaceT(ray, k)
            /\ ret.kind = "light" =>
                   LET light == lights[first]
                       t     == LightT(ray, first)
                       attenuation ==
                           BeerLaw(call.passing_material.absorption, t)
                   IN  /\ ret.color =
                              CScale(CMul(light.emission, attenuation),
                                     call.current_weight)
                       /\ call.direct_evals = 0
                       /\ call.direct_color = None
                       /\ call.branched_rays = << >>
                       /\ call.next = 1
            /\ ( /\ light_hits # {}
                 /\ surface_hits # {}
                 /\ LightT(ray, first) = SurfaceT(ray, FirstSurface(ray)) )
               => ret.kind = "surface"

\* C4 witness: a branched ray of weight below 1, in an absorbing medium,
\* has hit a light that lies before a surface.
C4_Witness ==
    /\ Scanned
    /\ ret.kind = "light"
    /\ SurfaceHits(ret.call.ray) # {}
    /\ ret.call.current_weight < ONE
    /\ ret.call.passing_material.absorption # Black
    /\ ret.color # Black

\* C4 witness of the tie: a light and a surface are hit at the same t.
C4_TieReached ==
    /\ Scanned
    /\ LightHits(ret.call.ray) # {}
    /\ SurfaceHits(ret.call.ray) # {}
    /\ LightT(ret.call.ray, FirstLight(ret.call.ray))
         = SurfaceT(ret.call.ray, FirstSurface(ret.call.ray))

\* C5: a call past the termination check whose ray hits no surface and no
\* light at t > 1e-5 returns background_color, neither attenuated nor
\* weighted, whatever the absorption of the passing material.
C5_NoHit ==
    Scanned =>
        /\ (SurfaceHits(ret.call.ray) = {} /\ LightHits(ret.call.ray) = {})
               <=> ret.kind = "background"
        /\ ret.kind = "background" =>
               /\ ret.color = background_color
               /\ ret.call.direct_evals = 0
               /\ ret.call.branched_rays = << >>

\* C5 witness: a branched ray of weight below 1 in an absorbing medium hit
\* nothing.
C5_Witness ==
    /\ Scanned
    /\ ret.kind = "background"
    /\ ret.call.depth > 0
    /\ ret.call.current_weight < ONE
    /\ ret.call.passing_material.absorption # Black

\* C6: the closest-surface search returns the hit of the first surface in
\* list order among those of least t > 1e-5, None if there is none; the
\* light scan keeps the first light of least t > 1e-5, by the same rule.
C6_ClosestHit ==
    Scanned =>
        LET call == ret.call
            ray  == call.ray
            surface_hits == SurfaceHits(ray)
            light_hits   == LightHits(ray)
            first_light  == FirstLight(ray)
        IN  /\ surface_hits = {} => call.closest_intersection = None
            /\ surface_hits # {} =>
                   call.closest_intersection =
                       SphereIntersect(surfaces[FirstSurface(ray)], ray)
            /\ light_hits = {} => call.closest_light_intersection = None
            /\ light_hits # {} =>
                   /\ call.closest_light_intersection.idx = first_light
                   /\ call.closest_light_intersection.hit =
                          LightIntersect(lights[first_light], ray)

\* C6 witness: two surfaces of different materials are hit at the same
\* least t, and the first of the list is the one kept.
C6_Witness ==
    /\ Scanned
    /\ \E j, k \in SurfaceHits(ret.call.ray) :
           /\ j < k
           /\ j = FirstSurface(ret.call.ray)
           /\ SurfaceT(ret.call.ray, j) = SurfaceT(ret.call.ray, k)
           /\ surfaces[j].material # surfaces[k].material
           /\ ret.call.closest_intersection.material = surfaces[j].material

\* The unit vector from a hit to the centre of light i, the cosine N.L with
\* the unflipped normal of the hit, and the distance to the centre.
ToLight(hit, i) == Normalize(VSub(lights[i].center, hit.point))

CosTheta(hit, i) == Dot(ToLight(hit, i), hit.normal)

DistToLight(hit, i) == Length(VSub(lights[i].center, hit.point))

\* What surface k returns for the shadow ray from a hit to light i: the ray
\* from the hit point moved 1e-4 towards the light.
ShadowHit(hit, i, k) ==
    LET to_light == ToLight(hit, i)
    IN  SphereIntersect(surfaces[k],
                        RayNew(VAdd(hit.point, VScale(to_light, OFFSET_EPS)),
                               to_light))

\* The surfaces the shadow ray hits before the light, whatever their
\* material, and those among them hit within the epsilon.
Blockers(hit, i) ==
    LET shadow == [k \in 1..Len(surfaces) |-> ShadowHit(hit, i, k)]
        dist   == DistToLight(hit, i)
    IN  { k \in 1..Len(surfaces) :
            shadow[k] # None /\ shadow[k].t < dist - EPS }

EpsilonBlockers(hit, i) ==
    LET shadow == [k \in 1..Len(surfaces) |-> ShadowHit(hit, i, k)]
        dist   == DistToLight(hit, i)
    IN  { k \in 1..Len(surfaces) :
            shadow[k] # None /\ shadow[k].t < dist - EPS /\ shadow[k].t <= EPS }

\* albedo * emission * (N.L) * diffuse_rate
Lambert(hit, i) ==
    CScale(CMul(hit.material.albedo, lights[i].emission),
           FMul(CosTheta(hit, i), hit.material.diffuse_rate))

\* The sum of the colours of a sequence.
ColorSum(terms) ==
    LET S[i \in 0..Len(terms)] ==
            IF i = 0 THEN Black ELSE CAdd(S[i - 1], terms[i])
    IN  S[Len(terms)]

\* C7 as claimed: every query ignores hits with t <= 1e-5, so a surface the
\* shadow ray hits at t <= 1e-5 does not occlude the light.
C7_EpsilonOnEveryQuery ==
    SurfaceHit =>
        LET call == ret.call
            hit  == call.closest_intersection
        IN  /\ hit.t > EPS
            /\ \A i \in 1..Len(lights) :
                   ( /\ CosTheta(hit, i) > 0
                     /\ Blockers(hit, i) \subseteq EpsilonBlockers(hit, i) )
                   => call.direct_terms[i] = Lambert(hit, i)

\* C7 as amended: the closest-surface search and the light search ignore
\* hits with t <= 1e-5, which never become the closest hit; the shadow test
\* has no such lower bound, and a surface the shadow ray hits at t <= 1e-5
\* (before the light) occludes the light.
C7_EpsilonOnScans ==
    /\ Scanned =>
           /\ ret.call.closest_intersection # None =>
                  ret.call.closest_intersection.t > EPS
           /\ ret.call.closest_light_intersection # None =>
                  ret.call.closest_light_intersection.hit.t > EPS
    /\ SurfaceHit =>
           \A i \in 1..Len(lights) :
               EpsilonBlockers(ret.call.closest_intersection, i) # {}
                   => ret.call.direct_terms[i] = Black

\* C7 witness: the only surface between a hit and a light that would
\* light it is hit by the shadow ray within the epsilon, and the light
\* contributes black.
C7_Witness ==
    /\ SurfaceHit
    /\ \E i \in 1..Len(lights) :
           LET hit == ret.call.closest_intersection
           IN  /\ CosTheta(hit, i) > 0
               /\ Lambert(hit, i) # Black
               /\ EpsilonBlockers(hit, i) # {}
               /\ Blockers(hit, i) = EpsilonBlockers(hit, i)
               /\ ret.call.direct_terms[i] = Black

\* C7 witness of the scans: a surface returns a hit within the epsilon
\* for the ray of a call, and the scan passes over it.
C7_NearHitIgnored ==
    /\ Scanned
    /\ \E k \in 1..Len(surfaces) :
           /\ SphereIntersect(surfaces[k], ret.call.ray) # None
           /\ SphereIntersect(surfaces[k], ret.call.ray).t <= EPS
           /\ ret.call.closest_intersection
                  # SphereIntersect(surfaces[k], ret.call.ray)

\* C8: the direct colour of a surface hit is the sum over the lights of
\* one term per light: black when N.L <= 0 (N the unflipped normal of the
\* hit), black when the light is occluded, else albedo * emission * (N.L) *
\* diffuse_rate of the hit's material.
C8_DirectLight ==
    SurfaceHit =>
        LET call == ret.call
            hit  == call.closest_intersection
        IN  /\ call.direct_evals = Len(lights)
            /\ Len(call.direct_terms) = Len(lights)
            /\ call.direct_color = ColorSum(call.direct_terms)
            /\ \A i \in 1..Len(lights) :
                   call.direct_terms[i] =
                       IF CosTheta(hit, i) <= 0 THEN Black
                       ELSE IF Blockers(hit, i) # {} THEN Black
                       ELSE Lambert(hit, i)

\* C8 witness: two lights light a hit, one at a cosine below 1, and the
\* direct colour is the sum of their two different terms.
C8_Witness ==
    /\ SurfaceHit
    /\ Len(lights) = 2
    /\ ret.call.direct_terms[1] # Black
    /\ ret.call.direct_terms[2] # Black
    /\ ret.call.direct_terms[1] # ret.call.direct_terms[2]
    /\ \E i \in 1..2 :
           /\ CosTheta(ret.call.closest_intersection, i) > 0
           /\ CosTheta(ret.call.closest_intersection, i) < ONE

\* C8 witness of the orientation: a light behind a scattering surface
\* (N.L < 0) contributes nothing.
C8_BackFacing ==
    /\ SurfaceHit
    /\ \E i \in 1..Len(lights) :
           /\ CosTheta(ret.call.closest_intersection, i) < 0
           /\ ret.call.closest_intersection.material.diffuse_rate > 0
           /\ Blockers(ret.call.closest_intersection, i) = {}

\* C9: shadowing is binary and blind to the material: a light whose shadow
\* ray hits any surface at t < distance to the light centre - 1e-5
\* contributes exactly black, whatever the transmission_rate of that
\* surface; a light with N.L > 0 and no such surface contributes the full
\* Lambert term.
C9_BinaryShadow ==
    SurfaceHit =>
        LET call == ret.call
            hit  == call.closest_intersection
        IN  \A i \in 1..Len(lights) :
                LET shadow == [k \in 1..Len(surfaces) |-> ShadowHit(hit, i, k)]
                    dist   == DistToLight(hit, i)
                IN  /\ (\E k \in 1..Len(surfaces) :
                            /\ shadow[k] # None
                            /\ shadow[k].t < dist - EPS)
                       => call.direct_terms[i] = Black
                    /\ ( /\ CosTheta(hit, i) > 0
                         /\ \A k \in 1..Len(surfaces) :
                                \/ shadow[k] = None
                                \/ shadow[k].t >= dist - EPS )
                       => call.direct_terms[i] = Lambert(hit, i)

\* C9 witness: a transmitting surface, hit by the shadow ray well beyond
\* the epsilon, is the only surface between a scattering hit and a light
\* facing it, and the light contributes black.
C9_Witness ==
    /\ SurfaceHit
    /\ \E i \in 1..Len(lights) :
           LET hit == ret.call.closest_intersection
           IN  /\ CosTheta(hit, i) > 0
               /\ Lambert(hit, i) # Black
               /\ Blockers(hit, i) # {}
               /\ \A k \in Blockers(hit, i) :
                      /\ surfaces[k].material.transmission_rate > 0
                      /\ ShadowHit(hit, i, k).t > EPS
               /\ ret.call.direct_terms[i] = Black

\* C9 witness of the other half: nothing lies between a scattering hit and
\* a light facing it, and the light contributes its Lambert term.
C9_Unoccluded ==
    /\ SurfaceHit
    /\ Len(surfaces) = 2
    /\ \E i \in 1..Len(lights) :
           LET hit == ret.call.closest_intersection
           IN  /\ CosTheta(hit, i) > 0
               /\ Blockers(hit, i) = {}
               /\ ret.call.direct_terms[i] # Black

\* C10: the attenuation of a surface hit and of a light hit is
\* exp(-absorption * t) per channel, from the absorption of the
\* passing_material of the call and the hit distance t, never from the
\* absorption of the surface hit; it multiplies the sum of the direct and
\* the indirect colour of a surface hit and the emission of a light hit.
C10_BeerLaw ==
    /\ SurfaceHit =>
           LET call == ret.call
           IN  /\ call.attenuation =
                      BeerLaw(call.passing_material.absorption,
                              call.closest_intersection.t)
               /\ ret.color =
                      CMul(CAdd(call.direct_color, call.indirect_color),
                           call.attenuation)
    /\ (ret # None /\ ret.kind = "light") =>
           LET call == ret.call
               hit  == call.closest_light_intersection
           IN  ret.color =
                   CScale(CMul(lights[hit.idx].emission,
                               BeerLaw(call.passing_material.absorption,
                                       hit.hit.t)),
                          call.current_weight)

\* C10 witness: a ray in an absorbing medium hit a surface of another
\* absorption; the three channels are attenuated differently and the
\* colour returned is not black.
C10_Witness ==
    /\ SurfaceHit
    /\ ret.call.passing_material.absorption # Black
    /\ ret.call.closest_intersection.material.absorption # Black
    /\ ret.call.closest_intersection.material.absorption
         # ret.call.passing_material.absorption
    /\ ret.call.attenuation.r # ret.call.attenuation.g
    /\ ret.call.attenuation.g # ret.call.attenuation.b
    /\ ret.call.attenuation.b < ONE
    /\ ret.color.r > 0 /\ ret.color.g > 0 /\ ret.color.b > 0

\* ------------------------------------- branch_rays and compute_direct_light
\* The two functions of the tracer that work on one hit, called on hits of
\* any incidence: a call is the one entry of the stack, and ret is the call
\* with the value it returned.

\* 1.0 and the threshold 1e-5 for rates counted in units of 1e-6, the
\* resolution at which a rate can lie in (0, 1e-5].
FINE_ONE == 1000000

FINE_RATE_EPS == 10

\* The weights branch_rays gives the transmitted and the specular branch,
\* for rates in units of 1e-6 and sin_t_sq in units of 1/ONE.
BranchWeights(specular_rate, transmission_rate, sin_t_sq) ==
    LET folded == transmission_rate > FINE_RATE_EPS /\ sin_t_sq > ONE
        specular_weight == IF folded THEN specular_rate + transmission_rate
                           ELSE specular_rate
    IN  [transmitted |-> IF transmission_rate > FINE_RATE_EPS /\ ~(sin_t_sq > ONE)
                         THEN << transmission_rate >> ELSE << >>,
         specular    |-> IF specular_weight > FINE_RATE_EPS
                         THEN << specular_weight >> ELSE << >>]

\* A medium of refractive index 2, and an ambient medium of index 1.25.
Dense == MaterialNew(Black, 0, 0, ONE, 2000, Black)

Water == MaterialNew(Black, 0, 0, ONE, 1250, Black)

\* The materials of the hits: every combination of the rates below.
HitMaterials ==
    { MaterialNew(Color(800, 400, 200), d, s, t, n, Color(10, 20, 40)) :
        d \in {0, 500}, s \in {0, 250, ONE}, t \in {0, 900, ONE},
        n \in {ONE, 1500} }

\* The directions of the incident rays, before Ray::new normalizes them:
\* along the normal, at cosines 0.8 and 0.6 to it, and grazing.
HitDirections ==
    { Vec3(0, 0, -1), Vec3(0, 0, 2), Vec3(3, 0, -4), Vec3(4, 0, -3),
      Vec3(8, 0, 6), Vec3(3, 0, 4), Vec3(5, 0, 0) }

\* The hit of a ray from the origin after 20e-5, on a surface of normal +z
\* or -z.
Hits(ray) ==
    { IntersectionNew(20, RayAt(ray, 20), normal, material) :
        normal \in { Vec3(0, 0, ONE), Vec3(0, 0, -ONE) },
        material \in HitMaterials }

\* The calls of branch_rays: a ray from the origin, its hit, and the medium
\* it came through.
BranchRaysCalls(vacuum) ==
    UNION { { [fn |-> "branch_rays", ray |-> RayNew(Vec3(0, 0, 0), direction),
               intersection |-> intersection, incoming_material |-> incoming] :
                intersection \in Hits(RayNew(Vec3(0, 0, 0), direction)),
                incoming \in { vacuum, Glass, Dense } } :
            direction \in HitDirections }

\* The calls of compute_direct_light, as trace_ray_recursive makes them:
\* the material is that of the hit.
DirectLightCalls ==
    { [fn |-> "compute_direct_light", intersection |-> intersection,
       light |-> light, material |-> intersection.material] :
        intersection \in Hits(RayNew(Vec3(0, 0, 0), Vec3(0, 0, -1))),
        light \in { LightNew(Vec3(0, 0, -50), 5, Color(2000, 1000, 500)),
                    LightNew(Vec3(30, 0, 20), 5, Color(1000, 2000, 4000)) } }

\* The rates and the values of sin_t_sq of the weights of branch_rays.
FineRates == { 0, 5, FINE_RATE_EPS, FINE_RATE_EPS + 1, 250000, 900000, FINE_ONE }

WeightCalls ==
    { [fn |-> "branch_rays weights", specular_rate |-> s,
       transmission_rate |-> t, sin_t_sq |-> q] :
        s \in FineRates, t \in FineRates, q \in { 0, 810, ONE, ONE + 1, 1440 } }

\* The largest coordinate of the directions handed to Ray::new, before
\* scaling.
MaxCoord == 2

\* The calls of Ray::new: every direction on the grid, the zero vector
\* among them, at three magnitudes (0.5, 1 and 7 per grid step).
RayNewCalls ==
    { [fn |-> "Ray::new", origin |-> Vec3(0, 300, -700),
       direction |-> Vec3(x * m, y * m, z * m)] :
         x \in -MaxCoord..MaxCoord, y \in -MaxCoord..MaxCoord,
         z \in -MaxCoord..MaxCoord, m \in { 500, ONE, 7000 } }

HitInit ==
    /\ surfaces = << >>
    /\ lights = << >>
    /\ background_color = Color(100, 200, 300)
    /\ max_depth = 1
    /\ min_weight = 1
    /\ vacuum_material \in { Vacuum, Water }
    /\ stack \in { << call >> :
                     call \in BranchRaysCalls(vacuum_material)
                                \cup DirectLightCalls \cup WeightCalls
                                \cup RayNewCalls }
    /\ ret = None
    /\ color = None
    /\ calls = 0
    /\ MainStarts(1)

\* branch_rays: the branches it returns, and each of its three pushes.
BranchRaysCall ==
    /\ stack # << >>
    /\ Top.fn = "branch_rays"
    /\ ret' = [call  |-> Top,
               kind  |-> "branch_rays",
               is_entering |-> IsEntering(Top.ray, Top.intersection),
               normal |-> EffectiveNormal(Top.ray, Top.intersection),
               value |-> BranchRays(Top.ray, Top.intersection,
                                    Top.incoming_material, vacuum_material),
               pushed |->
                   [diffuse     |-> DiffuseBranch(Top.ray, Top.intersection,
                                                  Top.incoming_material),
                    transmitted |-> TransmissionBranch(Top.ray, Top.intersection,
                                                       Top.incoming_material,
                                                       vacuum_material),
                    specular    |-> SpecularBranch(Top.ray, Top.intersection,
                                                   Top.incoming_material,
                                                   vacuum_material)]]
    /\ stack' = << >>
    /\ UNCHANGED << main, config, color, calls >>

\* The weights of branch_rays at the resolution of the threshold.
BranchWeightsCall ==
    /\ stack # << >>
    /\ Top.fn = "branch_rays weights"
    /\ ret' = [call  |-> Top,
               kind  |-> "branch_rays weights",
               value |-> BranchWeights(Top.specular_rate, Top.transmission_rate,
                                       Top.sin_t_sq)]
    /\ stack' = << >>
    /\ UNCHANGED << main, config, color, calls >>

\* compute_direct_light for one light.
ComputeDirectLightCall ==
    /\ stack # << >>
    /\ Top.fn = "compute_direct_light"
    /\ ret' = [call  |-> Top,
               kind  |-> "compute_direct_light",
               shadow_ray |-> ShadowRay(Top.intersection, Top.light),
               value |-> ComputeDirectLight(Top.intersection, Top.light,
                                            Top.material, surfaces)]
    /\ stack' = << >>
    /\ UNCHANGED << main, config, color, calls >>

\* Ray::new
RayNewCall ==
    /\ stack # << >>
    /\ Top.fn = "Ray::new"
    /\ ret' = [call  |-> Top,
               kind  |-> "Ray::new",
               value |-> RayNew(Top.origin, Top.direction)]
    /\ stack' = << >>
    /\ UNCHANGED << main, config, color, calls >>

HitNext ==
    BranchRaysCall \/ BranchWeightsCall \/ ComputeDirectLightCall
    \/ RayNewCall

HitSpec == HitInit /\ [][HitNext]_vars

\* branch_rays has just returned, and what it was called with.
Branched == ret # None /\ ret.kind = "branch_rays"

\* is_entering, the effective normal, the index ratio and sin^2 of the
\* refraction angle of a call of branch_rays, as the interaction defines
\* them.
Entering(call) == Dot(call.ray.direction, call.intersection.normal) < 0

OutwardNormal(call) ==
    IF Entering(call) THEN call.intersection.normal
    ELSE VNeg(call.intersection.normal)

IndexRatio(call) ==
    IF Entering(call)
    THEN FDiv(call.incoming_material.refractive_index,
              call.intersection.material.refractive_index)
    ELSE FDiv(call.intersection.material.refractive_index,
              vacuum_material.refractive_index)

CosI(call) == -Dot(call.ray.direction, OutwardNormal(call))

SinSqT(call) ==
    FMul(FMul(IndexRatio(call), IndexRatio(call)),
         ONE - FMul(CosI(call), CosI(call)))

\* Total internal reflection in a call of branch_rays.
TotalReflection(call) ==
    /\ call.intersection.material.transmission_rate > RATE_EPS
    /\ SinSqT(call) > ONE

\* The sum of the weights of the transmitted and the specular branch.
WeightSum(weights) ==
    (IF weights.transmitted = << >> THEN 0 ELSE weights.transmitted[1])
    + (IF weights.specular = << >> THEN 0 ELSE weights.specular[1])

C11_SmallSpecularFolded ==
    /\ ret # None
    /\ ret.kind = "branch_rays weights"
    /\ ret.call.specular_rate \in 1..FINE_RATE_EPS
    /\ ret.call.sin_t_sq > ONE
    /\ ret.value.specular # << >>
    /\ ret.value.specular[1] > ret.call.transmission_rate

\* The refracted direction of a call of branch_rays, before Ray::new
\* normalizes it: ratio * d + n * (ratio * cos_i - cos_t).
Refracted(call) ==
    LET cos_t == Sqrt((ONE - SinSqT(call)) * ONE)
    IN  VAdd(VScale(call.ray.direction, IndexRatio(call)),
             VScale(OutwardNormal(call),
                    FMul(IndexRatio(call), CosI(call)) - cos_t))

\* C12: with transmission_rate > 1e-5 and no total internal reflection,
\* branch_rays emits exactly one transmitted branch: weight
\* transmission_rate, origin = hit point - 1e-4 * effective normal,
\* passing_material the surface's material if entering and vacuum_material
\* otherwise, refracted with the ratio incoming index / surface index if
\* entering and surface index / vacuum index otherwise.  A material of
\* transmission_rate 1 and no other rate, entered without total internal
\* reflection, yields exactly one branch.
C12_TransmittedBranch ==
    Branched =>
        LET call     == ret.call
            material == call.intersection.material
            n        == OutwardNormal(call)
        IN  /\ (material.transmission_rate > RATE_EPS /\ SinSqT(call) <= ONE) =>
                   ret.pushed.transmitted =
                       << [ray |-> [origin |-> VSub(call.intersection.point,
                                                    VScale(n, OFFSET_EPS)),
                                    direction |-> Normalize(Refracted(call))],
                           weight |-> material.transmission_rate,
                           passing_material |->
                               IF Entering(call) THEN material
                               ELSE vacuum_material] >>
            /\ ( /\ material.transmission_rate = ONE
                 /\ material.diffuse_rate = 0
                 /\ material.specular_rate = 0
                 /\ Entering(call)
                 /\ SinSqT(call) <= ONE ) =>
                   /\ Len(ret.value) = 1
                   /\ ret.value = ret.pushed.transmitted

\* C12 witness: a ray that came through a medium other than the ambient
\* one left a surface obliquely into an ambient medium of index 1.25: the
\* transmitted branch is bent, and passes through the ambient medium.
C12_Witness ==
    /\ Branched
    /\ ~Entering(ret.call)
    /\ vacuum_material.refractive_index # ONE
    /\ ret.call.incoming_material.refractive_index
         # vacuum_material.refractive_index
    /\ CosI(ret.call) \in 1..(ONE - 1)
    /\ ret.pushed.transmitted # << >>
    /\ ret.pushed.transmitted[1].passing_material = vacuum_material
    /\ ret.pushed.transmitted[1].ray.direction # ret.call.ray.direction

\* C12 witness of the single branch: a purely transmitting material
\* entered obliquely.
C12_OnlyTransmitted ==
    /\ Branched
    /\ Entering(ret.call)
    /\ ret.call.intersection.material.transmission_rate = ONE
    /\ ret.call.intersection.material.refractive_index # ONE
    /\ CosI(ret.call) \in 1..(ONE - 1)
    /\ Len(ret.value) = 1
    /\ ret.value[1].passing_material = ret.call.intersection.material

\* C13: branch_rays emits a diffuse branch exactly when diffuse_rate >
\* 1e-5: direction the effective normal, weight diffuse_rate, origin = hit
\* point + 1e-4 * effective normal, passing_material that of the incoming
\* ray.
C13_DiffuseBranch ==
    Branched =>
        LET call     == ret.call
            material == call.intersection.material
            n        == OutwardNormal(call)
        IN  ret.pushed.diffuse =
                IF material.diffuse_rate > RATE_EPS
                THEN << [ray |-> [origin |-> VAdd(call.intersection.point,
                                                  VScale(n, OFFSET_EPS)),
                                  direction |-> n],
                         weight |-> material.diffuse_rate,
                         passing_material |-> call.incoming_material] >>
                ELSE << >>

\* C13 witness: a ray inside a scattering surface, in a medium other than
\* the ambient one, met it obliquely: the diffuse branch runs against the
\* geometric normal and stays in the medium of the ray.
C13_Witness ==
    /\ Branched
    /\ ~Entering(ret.call)
    /\ CosI(ret.call) \in 1..(ONE - 1)
    /\ ret.call.incoming_material # vacuum_material
    /\ ret.pushed.diffuse # << >>
    /\ ret.pushed.diffuse[1].ray.direction = VNeg(ret.call.intersection.normal)
    /\ ret.pushed.diffuse[1].passing_material = ret.call.incoming_material

\* C13 witness of the other half: no diffuse branch at diffuse_rate 0.
C13_NoDiffuse ==
    /\ Branched
    /\ ret.call.intersection.material.diffuse_rate = 0
    /\ ret.value # << >>
    /\ ret.pushed.diffuse = << >>

\* The mirror reflection d - 2 (d . n) n of a call of branch_rays.
Reflected(call) ==
    LET d == call.ray.direction
        n == OutwardNormal(call)
    IN  VSub(d, VScale(n, 2 * Dot(d, n)))

C14_NoSpecular ==
    /\ Branched
    /\ ret.call.intersection.material.specular_rate = 0
    /\ ret.pushed.transmitted # << >>
    /\ ret.pushed.specular = << >>

\* C15: is_entering is (d . N < 0) for the geometric normal N of the hit;
\* the effective normal n is N when entering and -N otherwise, so d . n <=
\* 0, and it is n that the branches use; compute_direct_light uses N as the
\* intersection carries it, whichever side the ray came from.
C15_EffectiveNormal ==
    /\ Branched =>
          LET call == ret.call
              d    == call.ray.direction
              N    == call.intersection.normal
              n    == IF Dot(d, N) < 0 THEN N ELSE VNeg(N)
              off  == VAdd(call.intersection.point, VScale(n, OFFSET_EPS))
          IN  /\ ret.is_entering = (Dot(d, N) < 0)
              /\ ret.normal = n
              /\ Dot(d, ret.normal) <= 0
              /\ \A i \in 1..Len(ret.pushed.diffuse) :
                    /\ ret.pushed.diffuse[i].ray.origin = off
                    /\ ret.pushed.diffuse[i].ray.direction = n
              /\ \A i \in 1..Len(ret.pushed.specular) :
                    ret.pushed.specular[i].ray.origin = off
              /\ \A i \in 1..Len(ret.pushed.transmitted) :
                    ret.pushed.transmitted[i].ray.origin
                        = VSub(call.intersection.point, VScale(n, OFFSET_EPS))
    /\ (ret # None /\ ret.kind = "compute_direct_light") =>
          LET call == ret.call
              N    == call.intersection.normal
              to_light == Normalize(VSub(call.light.center,
                                         call.intersection.point))
              cos_theta == Dot(N, to_light)
          IN  ret.value =
                  IF cos_theta <= 0 THEN Black
                  ELSE CScale(CMul(call.light.emission,
                                   call.material.albedo),
                              FMul(cos_theta, call.material.diffuse_rate))

\* C15 witness: a ray met a surface obliquely from inside: is_entering is
\* false and the effective normal is the negated geometric normal.
C15_Witness ==
    /\ Branched
    /\ Dot(ret.call.ray.direction, ret.call.intersection.normal) \in 1..(ONE - 1)
    /\ ~ret.is_entering
    /\ ret.normal = VNeg(ret.call.intersection.normal)
    /\ ret.value # << >>

\* C15 witness of the grazing case: d . N = 0 is not entering.
C15_Grazing ==
    /\ Branched
    /\ Dot(ret.call.ray.direction, ret.call.intersection.normal) = 0
    /\ ~ret.is_entering
    /\ Dot(ret.call.ray.direction, ret.normal) = 0

\* C15 witness of direct lighting: the normal of the hit points away from
\* the origin of the ray that found it (branch_rays would flip it), and the
\* light on that far side lights the point.
C15_DirectUnflipped ==
    /\ ret # None
    /\ ret.kind = "compute_direct_light"
    /\ ret.call.intersection.normal = Vec3(0, 0, -ONE)
    /\ ret.call.intersection.point.z < 0
    /\ ret.call.light.center.z < ret.call.intersection.point.z
    /\ ret.value # Black

\* C17: one call of branch_rays yields at most three branches, at most one
\* diffuse, one transmitted and one specular; a transmitted branch and a
\* fold of transmission_rate into the specular weight never occur together.
C17_AtMostThreeBranches ==
    /\ Branched =>
          LET material == ret.call.intersection.material
          IN  /\ Len(ret.value) <= 3
              /\ Len(ret.pushed.diffuse) <= 1
              /\ Len(ret.pushed.transmitted) <= 1
              /\ Len(ret.pushed.specular) <= 1
              /\ ret.value = ret.pushed.diffuse \o ret.pushed.transmitted
                                 \o ret.pushed.specular
              /\ ret.pushed.transmitted # << >> =>
                    /\ ~TotalReflection(ret.call)
                    /\ \A i \in 1..Len(ret.pushed.specular) :
                          ret.pushed.specular[i].weight = material.specular_rate
              /\ TotalReflection(ret.call) => ret.pushed.transmitted = << >>
    /\ (ret # None /\ ret.kind = "branch_rays weights") =>
          /\ Len(ret.value.transmitted) <= 1
          /\ Len(ret.value.specular) <= 1
          /\ ret.value.transmitted # << >> =>
                \A i \in 1..Len(ret.value.specular) :
                    ret.value.specular[i] = ret.call.specular_rate

\* C17 witness: a surface with all three rates above 1e-5 refracted a ray:
\* three branches, in the order diffuse, transmitted, specular.
C17_Witness ==
    /\ Branched
    /\ Len(ret.value) = 3
    /\ ret.value[1].weight = ret.call.intersection.material.diffuse_rate
    /\ ret.value[2].weight = ret.call.intersection.material.transmission_rate
    /\ ret.value[3].weight = ret.call.intersection.material.specular_rate

\* C17 witness of the fold: under total internal reflection a surface with
\* all three rates above 1e-5 yields two branches.
C17_FoldedPair ==
    /\ Branched
    /\ TotalReflection(ret.call)
    /\ ret.call.intersection.material.diffuse_rate > RATE_EPS
    /\ ret.call.intersection.material.specular_rate > RATE_EPS
    /\ Len(ret.value) = 2
    /\ ret.pushed.transmitted = << >>

\* ------------------------------------------------- the loop over branches

\* C16: each branch is traced by a recursive call with depth + 1, weight =
\* current_weight * branch.weight and the branch's ray and passing_material;
\* the call's result is (direct + sum over the branches of albedo *
\* branch.weight * the branch's result) * attenuation, and current_weight
\* is not a factor of it.
C16_BranchRecursion ==
    /\ \A k \in 2..Len(stack) :
          LET caller   == stack[k - 1]
              branched == caller.branched_rays[caller.next]
          IN  /\ caller.pc = "call"
              /\ stack[k].ray = branched.ray
              /\ stack[k].depth = caller.depth + 1
              /\ stack[k].current_weight
                    = FMul(caller.current_weight, branched.weight)
              /\ stack[k].passing_material = branched.passing_material
    /\ (ret # None /\ stack # << >>) =>
          /\ Top.next = Len(Top.contributions) + 1
          /\ Top.contributions[Top.next - 1] = ret.color
          /\ ret.call.ray = Top.branched_rays[Top.next - 1].ray
    /\ SurfaceHit =>
          LET call   == ret.call
              albedo == call.closest_intersection.material.albedo
              terms  == [k \in 1..Len(call.branched_rays) |->
                            CScale(CMul(albedo, call.contributions[k]),
                                   call.branched_rays[k].weight)]
          IN  /\ Len(call.contributions) = Len(call.branched_rays)
              /\ ret.color = CMul(CAdd(call.direct_color, ColorSum(terms)),
                                  call.attenuation)

\* C16 witness: a call of weight below 1 returned from a lit surface with
\* two branches, one of which brought light back.
C16_Witness ==
    /\ SurfaceHit
    /\ ret.call.depth > 0
    /\ ret.call.current_weight < ONE
    /\ Len(ret.call.branched_rays) >= 2
    /\ \E k \in 1..Len(ret.call.contributions) :
          ret.call.contributions[k] # Black
    /\ ret.call.direct_color # Black
    /\ ret.color # Black

\* C16 witness of the caller's side: the call of a branch of weight below 1
\* is on the stack, two levels below the primary ray.
C16_NestedCall ==
    /\ Len(stack) >= 3
    /\ Top.depth = 2
    /\ Top.current_weight \in 1..(ONE - 1)
    /\ Top.passing_material # vacuum_material

\* ------------------------------------------------ the Material constructors

\* The rates handed to the constructors: below 0, the two ends of [0,1], a
\* value inside, and above 1.
RateInputs == { -500, 0, 300, ONE, 1700 }

\* The calls of the constructors of Material.
MaterialCalls ==
    { [fn |-> "new", albedo |-> Color(800, 400, 200), diffuse_rate |-> d,
       specular_rate |-> s, transmission_rate |-> t, refractive_index |-> n,
       absorption |-> a] :
         d \in RateInputs, s \in RateInputs, t \in RateInputs,
         n \in { ONE, 1500 }, a \in { Black, Color(10, 20, 40) } }
    \cup { [fn |-> f, albedo |-> Color(800, 400, 200), rate |-> r] :
             f \in { "matte", "mirror" }, r \in RateInputs }
    \cup { [fn |-> "transparent", albedo |-> Color(800, 400, 200),
            transmission_rate |-> t, refractive_index |-> n] :
             t \in RateInputs, n \in { ONE, 1500 } }
    \cup { [fn |-> "glass", transmission_rate |-> t] : t \in RateInputs }
    \cup { [fn |-> "metal", albedo |-> Color(800, 400, 200),
            specular_rate |-> s, diffuse_rate |-> d] :
             s \in RateInputs, d \in RateInputs }

MaterialInit ==
    /\ surfaces = << >>
    /\ lights = << >>
    /\ background_color = Black
    /\ max_depth = 1
    /\ min_weight = 1
    /\ vacuum_material = Vacuum
    /\ stack \in { << call >> : call \in MaterialCalls }
    /\ ret = None
    /\ color = None
    /\ calls = 0
    /\ MainStarts(1)

\* A constructor returned the material value.
Built(value) ==
    /\ ret' = [call |-> Top, kind |-> "material", value |-> value]
    /\ stack' = << >>
    /\ UNCHANGED << main, config, color, calls >>

NewCall ==
    /\ stack # << >>
    /\ Top.fn = "new"
    /\ Built(MaterialNew(Top.albedo, Top.diffuse_rate, Top.specular_rate,
                         Top.transmission_rate, Top.refractive_index,
                         Top.absorption))

MatteCall ==
    /\ stack # << >>
    /\ Top.fn = "matte"
    /\ Built(Matte(Top.albedo, Top.rate))

MirrorCall ==
    /\ stack # << >>
    /\ Top.fn = "mirror"
    /\ Built(Mirror(Top.albedo, Top.rate))

TransparentCall ==
    /\ stack # << >>
    /\ Top.fn = "transparent"
    /\ Built(Transparent(Top.albedo, Top.transmission_rate,
                         Top.refractive_index))

GlassCall ==
    /\ stack # << >>
    /\ Top.fn = "glass"
    /\ Built(MaterialGlass(Top.transmission_rate))

MetalCall ==
    /\ stack # << >>
    /\ Top.fn = "metal"
    /\ Built(Metal(Top.albedo, Top.specular_rate, Top.diffuse_rate))

MaterialNext ==
    NewCall \/ MatteCall \/ MirrorCall \/ TransparentCall \/ GlassCall
    \/ MetalCall

MaterialSpec == MaterialInit /\ [][MaterialNext]_vars

\* A constructor of Material has just returned.
MaterialBuilt == ret # None /\ ret.kind = "material"

\* A rate clamped into [0,1].
Clamped(rate) == IF rate < 0 THEN 0 ELSE IF rate > ONE THEN ONE ELSE rate

\* C18: Material::new stores each of the three rates clamped into [0,1],
\* whatever the other two are, and albedo, refractive_index and absorption
\* as given; every material built by new, matte, mirror, transparent, glass
\* or metal has its three rates in [0,1].
C18_RatesClamped ==
    MaterialBuilt =>
        /\ ret.value.diffuse_rate \in 0..ONE
        /\ ret.value.specular_rate \in 0..ONE
        /\ ret.value.transmission_rate \in 0..ONE
        /\ ret.call.fn = "new" =>
              /\ ret.value.diffuse_rate = Clamped(ret.call.diffuse_rate)
              /\ ret.value.specular_rate = Clamped(ret.call.specular_rate)
              /\ ret.value.transmission_rate
                    = Clamped(ret.call.transmission_rate)
              /\ ret.value.albedo = ret.call.albedo
              /\ ret.value.refractive_index = ret.call.refractive_index
              /\ ret.value.absorption = ret.call.absorption

\* C18 witness: new was given a rate above 1, the rate 1 and a rate below
\* 0: it stored 1, 1 and 0, which sum to 2.
C18_Witness ==
    /\ MaterialBuilt
    /\ ret.call.fn = "new"
    /\ ret.call.diffuse_rate > ONE
    /\ ret.call.transmission_rate < 0
    /\ ret.value.diffuse_rate = ONE
    /\ ret.value.specular_rate = ONE
    /\ ret.value.transmission_rate = 0

\* C18 witness of the other constructors: each clamped a rate given out of
\* range.
C18_MetalClamped ==
    /\ MaterialBuilt
    /\ ret.call.fn = "metal"
    /\ ret.call.specular_rate > ONE
    /\ ret.call.diffuse_rate < 0
    /\ ret.value.specular_rate = ONE
    /\ ret.value.diffuse_rate = 0

C18_GlassClamped ==
    /\ MaterialBuilt
    /\ ret.call.fn = "glass"
    /\ ret.call.transmission_rate > ONE
    /\ ret.value.transmission_rate = ONE
    /\ ret.value.specular_rate = 100

\* ------------------------------------------------------------- Ray::new

\* Ray::new has just returned.
RayBuilt == ret # None /\ ret.kind = "Ray::new"

\* A length of 1 within the rounding of the three divisions and the root.
NearOne(len) == len \in (ONE - 3)..(ONE + 3)

\* C19 as claimed: every ray built by Ray::new has a direction of length 1,
\* whatever direction it was given.
C19_AlwaysUnit ==
    RayBuilt => NearOne(Length(ret.value.direction))

\* C19: a ray built by Ray::new from a direction other than the zero vector
\* has a direction of length 1 that points the same way, whatever the
\* magnitude given; the zero vector is stored as it is. The branches of
\* branch_rays and the shadow ray of compute_direct_light, built by
\* Ray::new from directions other than zero, have directions of length 1.
C19_UnitUnlessZero ==
    /\ RayBuilt =>
          /\ ret.value.origin = ret.call.origin
          /\ IF ret.call.direction = Vec3(0, 0, 0)
             THEN ret.value.direction = Vec3(0, 0, 0)
             ELSE /\ NearOne(Length(ret.value.direction))
                  /\ NearOne(FDiv(Dot(ret.value.direction, ret.call.direction),
                                  Length(ret.call.direction)))
    /\ Branched =>
          \A i \in 1..Len(ret.value) :
              NearOne(Length(ret.value[i].ray.direction))
    /\ (ret # None /\ ret.kind = "compute_direct_light") =>
          NearOne(Length(ret.shadow_ray.direction))

\* C19 witness: a direction of length 7 * sqrt(6), not along an axis, was
\* stored with length 1.
C19_Witness ==
    /\ RayBuilt
    /\ ret.call.direction = Vec3(7000, -14000, 7000)
    /\ ret.value.direction # ret.call.direction
    /\ NearOne(Length(ret.value.direction))

\* C19 witness of the zero vector: it was stored unchanged.
C19_ZeroKept ==
    /\ RayBuilt
    /\ ret.call.direction = Vec3(0, 0, 0)
    /\ Length(ret.value.direction) = 0

\* C19 witness of a short direction: length 0.5 was stored with length 1.
C19_ShortStretched ==
    /\ RayBuilt
    /\ Length(ret.call.direction) = 500
    /\ NearOne(Length(ret.value.direction))

\* --------------------------------------------------------------- Triangle

\* The threshold 1e-8 of mesh.rs on the determinant, which is a product of
\* two lengths: 100 in units of 1e-5 * 1e-5.
DET_EPS == 100

Abs(x) == IF x < 0 THEN -x ELSE x

\* The result of an f32 operation on lengths and their products: f32 keeps
\* 24 bits of it, whatever its magnitude; the model keeps three decimal
\* digits, the precision it gives the dimensionless values, rounding to
\* the nearest.
Fl(x) ==
    LET m == Abs(x)
        ulp == IF m < 1000 THEN 1
               ELSE IF m < 10000 THEN 10
               ELSE IF m < 100000 THEN 100
               ELSE IF m < 1000000 THEN 1000
               ELSE IF m < 10000000 THEN 10000
               ELSE IF m < 100000000 THEN 100000
               ELSE 1000000
        r == ((m + ulp \div 2) \div ulp) * ulp
    IN  IF x < 0 THEN -r ELSE r

\* Vec3::dot and Vec3::cross of two vectors in units of length, and
\* Vec3::cross of a direction with such a vector.
DotLengths(u, v) == Fl(Fl(Fl(u.x * v.x) + Fl(u.y * v.y)) + Fl(u.z * v.z))

CrossLengths(u, v) ==
    Vec3(Fl(Fl(u.y * v.z) - Fl(u.z * v.y)),
         Fl(Fl(u.z * v.x) - Fl(u.x * v.z)),
         Fl(Fl(u.x * v.y) - Fl(u.y * v.x)))

Cross(u, v) ==
    Vec3(FMul(u.y, v.z) - FMul(u.z, v.y),
         FMul(u.z, v.x) - FMul(u.x, v.z),
         FMul(u.x, v.y) - FMul(u.y, v.x))

\* inv_det * x, for a determinant of either sign, at the scale ONE.
TimesInvDet(x, det) == IF det < 0 THEN FDiv(-x, -det) ELSE FDiv(x, det)

\* inv_det * x for x a product of three lengths: a length.
LengthTimesInvDet(x, det) == IF det < 0 THEN (-x) \div (-det) ELSE x \div det

TriangleNew(v0, v1, v2, material) ==
    [v0 |-> v0, v1 |-> v1, v2 |-> v2, material |-> material]

\* Triangle::normal
TriangleNormal(triangle) ==
    Normalize(CrossLengths(VSub(triangle.v1, triangle.v0),
                           VSub(triangle.v2, triangle.v0)))

\* The intersection with v bounded by 1 instead of u + v.
TriangleIntersectSquare(triangle, ray) ==
    LET edge1 == VSub(triangle.v1, triangle.v0)
        edge2 == VSub(triangle.v2, triangle.v0)
        ray_cross_edge2 == Cross(ray.direction, edge2)
        det == DotLengths(edge1, ray_cross_edge2)
    IN  IF Abs(det) < DET_EPS THEN None
        ELSE LET s == VSub(ray.origin, triangle.v0)
                 u == TimesInvDet(DotLengths(s, ray_cross_edge2), det)
             IN  IF u < 0 \/ u > ONE THEN None
                 ELSE LET s_cross_edge1 == CrossLengths(s, edge1)
                          v == TimesInvDet(Dot(ray.direction, s_cross_edge1), det)
                      IN  IF v < 0 \/ v > ONE THEN None
                          ELSE LET t == LengthTimesInvDet(
                                            DotLengths(edge2, s_cross_edge1), det)
                               IN  IF t > 0
                                   THEN IntersectionNew(t, RayAt(ray, t),
                                                        TriangleNormal(triangle),
                                                        triangle.material)
                                   ELSE None

\* Triangle::intersect
TriangleIntersect(triangle, ray) ==
    LET edge1 == VSub(triangle.v1, triangle.v0)
        edge2 == VSub(triangle.v2, triangle.v0)
        ray_cross_edge2 == Cross(ray.direction, edge2)
        det == DotLengths(edge1, ray_cross_edge2)
    IN  IF Abs(det) < DET_EPS THEN None
        ELSE LET s == VSub(ray.origin, triangle.v0)
                 u == TimesInvDet(DotLengths(s, ray_cross_edge2), det)
             IN  IF u < 0 \/ u > ONE THEN None
                 ELSE LET s_cross_edge1 == CrossLengths(s, edge1)
                          v == TimesInvDet(Dot(ray.direction, s_cross_edge1), det)
                      IN  IF v < 0 \/ u + v > ONE THEN None
                          ELSE LET t == LengthTimesInvDet(
                                            DotLengths(edge2, s_cross_edge1), det)
                               IN  IF t > 0
                                   THEN IntersectionNew(t, RayAt(ray, t),
                                                        TriangleNormal(triangle),
                                                        triangle.material)
                                   ELSE None

\* ------------------------------------------------------ Sphere::intersect

\* The spheres and rays handed to Sphere::intersect: spheres in front of,
\* around, beside and behind the origins of the rays, one of radius zero
\* among them, rays along an axis and oblique, and a ray of direction zero.
SphereInputs ==
    { SphereNew(Vec3(x, 0, z), radius, material) :
        x \in { 0, 30, 60 }, z \in { -100, -80, -40, 0, 80 },
        radius \in { 0, 10, 30, 50, 100, 120 }, material \in { Bronze, Glass } }

\* The lights handed to Light::intersect: the same centres and radii.
LightInputs ==
    { LightNew(sphere.center, sphere.radius, Color(2000, 1000, 500)) :
        sphere \in SphereInputs }

RayInputs ==
    { RayNew(origin, direction) :
        origin \in { Vec3(0, 0, 0), Vec3(0, 20, 0) },
        direction \in { Vec3(0, 0, -1), Vec3(0, 0, 2), Vec3(3, 0, -4),
                        Vec3(5, 0, 0), Vec3(0, 0, 0) } }

IntersectCalls ==
    { [fn |-> "Sphere::intersect", sphere |-> sphere, ray |-> ray] :
        sphere \in SphereInputs, ray \in RayInputs }

LightIntersectCalls ==
    { [fn |-> "Light::intersect", light |-> light, ray |-> ray] :
        light \in LightInputs, ray \in RayInputs }

\* The triangles handed to Triangle::intersect: in the plane z = 500 with
\* either winding, tilted, too small for the determinant threshold, and of
\* area zero (vertices on a line, two or three vertices the same).
TriangleInputs ==
    { TriangleNew(Vec3(0, 0, 500), v1, v2, Bronze) :
        v1 \in { Vec3(100, 0, 500), Vec3(0, 100, 500), Vec3(5, 0, 500),
                 Vec3(50, 0, 500), Vec3(0, 0, 500) },
        v2 \in { Vec3(0, 100, 500), Vec3(100, 0, 500), Vec3(0, 5, 500),
                 Vec3(0, 100, 600), Vec3(0, 0, 500) } }

\* The rays handed to it: from both sides of the plane, through the
\* triangle, past each of its edges, parallel to it, oblique, and a ray of
\* direction zero.
TriangleRays ==
    { RayNew(Vec3(x, y, z), direction) :
        x \in { -20, 0, 20, 60, 100, 200 }, y \in { -20, 0, 30, 60 },
        z \in { 0, 1000 },
        direction \in { Vec3(0, 0, 1), Vec3(0, 0, -1), Vec3(1, 0, 0),
                        Vec3(3, 0, 4), Vec3(0, 0, 0) } }

\* A triangle of area zero that lies along no axis (two of its vertices
\* are the same), and the rays aimed at points of it.
Sliver == TriangleNew(Vec3(0, 0, 500), Vec3(110, 70, 530), Vec3(110, 70, 530), Bronze)

SliverRays ==
    { RayNew(origin, VSub(target, origin)) :
        origin \in { Vec3(200, -20, 0), Vec3(100, -20, 0), Vec3(60, -20, 1000),
                     Vec3(0, 30, 0) },
        target \in { Vec3(0, 0, 500), Vec3(22, 14, 506), Vec3(44, 28, 512),
                     Vec3(99, 63, 527), Vec3(110, 70, 530) } }

TriangleCalls ==
    { [fn |-> "Triangle::intersect", triangle |-> triangle, ray |-> ray] :
        triangle \in TriangleInputs, ray \in TriangleRays }
    \cup { [fn |-> "Triangle::intersect", triangle |-> Sliver, ray |-> ray] :
             ray \in SliverRays }

SphereInit ==
    /\ surfaces = << >>
    /\ lights = << >>
    /\ background_color = Black
    /\ max_depth = 1
    /\ min_weight = 1
    /\ vacuum_material = Vacuum
    /\ stack \in { << call >> : call \in IntersectCalls \cup LightIntersectCalls
                                       \cup TriangleCalls }
    /\ ret = None
    /\ color = None
    /\ calls = 0
    /\ MainStarts(1)

\* Sphere::intersect
IntersectCall ==
    /\ stack # << >>
    /\ Top.fn = "Sphere::intersect"
    /\ ret' = [call  |-> Top,
               kind  |-> "Sphere::intersect",
               value |-> SphereIntersect(Top.sphere, Top.ray)]
    /\ stack' = << >>
    /\ UNCHANGED << main, config, color, calls >>

\* Triangle::intersect
TriangleIntersectCall ==
    /\ stack # << >>
    /\ Top.fn = "Triangle::intersect"
    /\ ret' = [call  |-> Top,
               kind  |-> "Triangle::intersect",
               value |-> TriangleIntersect(Top.triangle, Top.ray)]
    /\ stack' = << >>
    /\ UNCHANGED << main, config, color, calls >>

\* Light::intersect
LightIntersectCall ==
    /\ stack # << >>
    /\ Top.fn = "Light::intersect"
    /\ ret' = [call  |-> Top,
               kind  |-> "Light::intersect",
               value |-> LightIntersect(Top.light, Top.ray)]
    /\ stack' = << >>
    /\ UNCHANGED << main, config, color, calls >>

SphereNext == IntersectCall \/ LightIntersectCall \/ TriangleIntersectCall

SphereSpec == SphereInit /\ [][SphereNext]_vars

\* Sphere::intersect has just returned.
Intersected == ret # None /\ ret.kind = "Sphere::intersect"

\* The quadratic of a call of Sphere::intersect: its coefficients, its
\* discriminant and, where a is not zero, its smaller and its larger root.
Quadratic(call) ==
    LET oc == VSub(call.ray.origin, call.sphere.center)
        d  == call.ray.direction
        a  == Dot(d, d)
        b  == 2 * Dot(oc, d)
        c  == LengthSquared(oc) - call.sphere.radius * call.sphere.radius
        discriminant == b * b - FMul(FMul(4 * ONE, a), c)
        root == IF discriminant < 0 THEN 0 ELSE Sqrt(discriminant)
    IN  [a |-> a, discriminant |-> discriminant,
         smaller |-> IF a = 0 THEN None ELSE FDiv(-b - root, FMul(2 * ONE, a)),
         larger  |-> IF a = 0 THEN None ELSE FDiv(-b + root, FMul(2 * ONE, a))]

\* The distance from the origin of the ray to the centre of the sphere when
\* the ray is aimed at the centre, 0 otherwise.
AimedAtCenter(call) ==
    LET to_center == VSub(call.sphere.center, call.ray.origin)
        D == Length(to_center)
    IN  IF D > 0 /\ VScale(call.ray.direction, D) = to_center THEN D
        ELSE 0

\* C20: Sphere::intersect returns no hit when the discriminant is negative;
\* otherwise the smaller root if it is > 0, else the larger root if it is
\* > 0, else no hit. A hit has t > 0, the point of the ray at t, the normal
\* normalize(point - center), pointing away from the centre whichever side
\* the ray came from, and the sphere's material. A ray aimed at the centre
\* from a distance D > radius hits at t = D - radius.
C20_SphereIntersect ==
    Intersected =>
        LET call == ret.call
            q    == Quadratic(call)
            hit  == ret.value
            D    == AimedAtCenter(call)
        IN  /\ q.discriminant < 0 => hit = None
            /\ (q.discriminant >= 0 /\ q.a # 0) =>
                  /\ q.smaller <= q.larger
                  /\ IF q.smaller > 0 THEN hit # None /\ hit.t = q.smaller
                     ELSE IF q.larger > 0 THEN hit # None /\ hit.t = q.larger
                     ELSE hit = None
            /\ q.a = 0 => hit = None
            /\ hit # None =>
                  /\ hit.t > 0
                  /\ hit.point = RayAt(call.ray, hit.t)
                  /\ hit.normal = Normalize(VSub(hit.point, call.sphere.center))
                  /\ call.sphere.radius > 0 =>
                        Dot(hit.normal, VSub(hit.point, call.sphere.center)) > 0
                  /\ Length(VSub(hit.point, call.sphere.center))
                        \in (call.sphere.radius - 2)..(call.sphere.radius + 2)
                  /\ hit.material = call.sphere.material
            /\ (D > 0 /\ D > call.sphere.radius) =>
                  hit # None /\ hit.t = D - call.sphere.radius

\* C20 witness: an oblique ray aimed at the centre of a sphere at distance
\* 100 and of radius 30 hit it at t = 70, with the normal facing the ray.
C20_Witness ==
    /\ Intersected
    /\ ret.call.ray.direction = Vec3(600, 0, -800)
    /\ AimedAtCenter(ret.call) = 100
    /\ ret.call.sphere.radius = 30
    /\ ret.value # None
    /\ ret.value.t = 70
    /\ Dot(ret.call.ray.direction, ret.value.normal) < 0

\* C20 witness of the larger root: the ray started inside the sphere, the
\* smaller root is negative, and the normal points along the ray.
C20_FromInside ==
    /\ Intersected
    /\ Quadratic(ret.call).a # 0
    /\ Quadratic(ret.call).smaller < 0
    /\ ret.value # None
    /\ ret.value.t = Quadratic(ret.call).larger
    /\ Dot(ret.call.ray.direction, ret.value.normal) > 0

\* C20 witness of the misses: a negative discriminant, and a sphere behind
\* the ray, both of whose roots are negative.
C20_Missed ==
    /\ Intersected
    /\ Quadratic(ret.call).discriminant < 0
    /\ ret.value = None

C20_Behind ==
    /\ Intersected
    /\ Quadratic(ret.call).discriminant > 0
    /\ Quadratic(ret.call).a # 0
    /\ Quadratic(ret.call).larger < 0
    /\ ret.value = None

\* C20 witness of a root that is 0: the ray starts on the sphere and hits
\* it at the larger root, on the far side.
C20_OnSurface ==
    /\ Intersected
    /\ Quadratic(ret.call).a # 0
    /\ Quadratic(ret.call).smaller = 0
    /\ ret.value # None
    /\ ret.value.t = 2 * ret.call.sphere.radius

\* ---------------------------------------------------- Triangle::intersect

\* Triangle::intersect has just returned.
TriangleIntersected == ret # None /\ ret.kind = "Triangle::intersect"

\* The determinant of a call of Triangle::intersect and, where it is not
\* zero, the barycentric coordinates u and v and the parameter t of the
\* point where the ray meets the plane of the triangle.
Barycentric(call) ==
    LET e1  == VSub(call.triangle.v1, call.triangle.v0)
        e2  == VSub(call.triangle.v2, call.triangle.v0)
        d   == call.ray.direction
        s   == VSub(call.ray.origin, call.triangle.v0)
        p   == Cross(d, e2)
        q   == CrossLengths(s, e1)
        det == DotLengths(e1, p)
    IN  [det |-> det,
         u |-> IF det = 0 THEN 0 ELSE TimesInvDet(DotLengths(s, p), det),
         v |-> IF det = 0 THEN 0 ELSE TimesInvDet(Dot(d, q), det),
         t |-> IF det = 0 THEN 0 ELSE LengthTimesInvDet(DotLengths(e2, q), det)]

\* The triangle of a call lies in the plane z = 500 with its legs of
\* length 100 along the x and the y axis.
FlatTriangle(call) ==
    {call.triangle.v1, call.triangle.v2} = {Vec3(100, 0, 500), Vec3(0, 100, 500)}

\* C21: Triangle::intersect returns a hit if and only if |det| >= 1e-8,
\* 0 <= u <= 1, v >= 0, u + v <= 1 and t > 0; the hit carries the
\* normalized cross product of the edges in vertex order as its normal,
\* whichever side the ray came from, the point of the ray at t, which is a
\* point of the triangle, and the triangle's material.
C21_TriangleIntersect ==
    TriangleIntersected =>
        LET call == ret.call
            b    == Barycentric(call)
            hit  == ret.value
        IN  /\ hit # None <=>
                  /\ Abs(b.det) >= DET_EPS
                  /\ 0 <= b.u /\ b.u <= ONE
                  /\ b.v >= 0
                  /\ b.u + b.v <= ONE
                  /\ b.t > 0
            /\ hit # None =>
                  /\ hit.t = b.t
                  /\ hit.point = RayAt(call.ray, hit.t)
                  /\ hit.normal
                        = Normalize(CrossLengths(
                              VSub(call.triangle.v1, call.triangle.v0),
                              VSub(call.triangle.v2, call.triangle.v0)))
                  /\ hit.material = call.triangle.material
                  /\ FlatTriangle(call) =>
                        /\ hit.point.z \in 499..501
                        /\ hit.point.x >= -1
                        /\ hit.point.y >= -1
                        /\ hit.point.x + hit.point.y <= 101
                        /\ hit.normal.z = (IF call.triangle.v1.x = 100
                                           THEN ONE ELSE -ONE)

\* C21 witness: a ray along +z hit the triangle whose normal is +z, its
\* back face, strictly inside, at t = 500.
C21_Witness ==
    /\ TriangleIntersected
    /\ ret.call.ray.direction = Vec3(0, 0, ONE)
    /\ ret.call.ray.origin = Vec3(20, 30, 0)
    /\ ret.value # None
    /\ ret.value.t = 500
    /\ ret.value.normal = Vec3(0, 0, ONE)

\* C21 witnesses of the misses, one for each condition alone.
C21_SmallDeterminant ==
    /\ TriangleIntersected
    /\ Barycentric(ret.call).det # 0
    /\ Abs(Barycentric(ret.call).det) < DET_EPS
    /\ Barycentric(ret.call).u \in 0..ONE
    /\ Barycentric(ret.call).v >= 0
    /\ Barycentric(ret.call).u + Barycentric(ret.call).v <= ONE
    /\ Barycentric(ret.call).t > 0
    /\ ret.value = None

C21_OutsideU ==
    /\ TriangleIntersected
    /\ Abs(Barycentric(ret.call).det) >= DET_EPS
    /\ Barycentric(ret.call).u > ONE
    /\ Barycentric(ret.call).v >= 0
    /\ Barycentric(ret.call).t > 0
    /\ ret.value = None

C21_BeyondHypotenuse ==
    /\ TriangleIntersected
    /\ Abs(Barycentric(ret.call).det) >= DET_EPS
    /\ Barycentric(ret.call).u \in 0..ONE
    /\ Barycentric(ret.call).v \in 0..ONE
    /\ Barycentric(ret.call).u + Barycentric(ret.call).v > ONE
    /\ Barycentric(ret.call).t > 0
    /\ ret.value = None

C21_Behind ==
    /\ TriangleIntersected
    /\ Abs(Barycentric(ret.call).det) >= DET_EPS
    /\ Barycentric(ret.call).u \in 0..ONE
    /\ Barycentric(ret.call).v >= 0
    /\ Barycentric(ret.call).u + Barycentric(ret.call).v <= ONE
    /\ Barycentric(ret.call).t < 0
    /\ ret.value = None

\* ------------------------------------------------------- Light::intersect

\* Light::intersect has just returned.
LightIntersected == ret # None /\ ret.kind = "Light::intersect"

\* C22: Light::intersect on a light of centre c and radius r returns a hit
\* exactly when Sphere::intersect on a sphere of the same c and r does, with
\* the same t, point and normal; the light's hit carries a material of
\* black albedo, black absorption and the three rates 0.
C22_LightAsSphere ==
    LightIntersected =>
        LET light  == ret.call.light
            hit    == ret.value
            sphere == SphereIntersect(SphereNew(light.center, light.radius,
                                                Glass),
                                      ret.call.ray)
        IN  /\ hit = None <=> sphere = None
            /\ hit # None =>
                  /\ hit.t = sphere.t
                  /\ hit.point = sphere.point
                  /\ hit.normal = sphere.normal
                  /\ hit.material.albedo = Black
                  /\ hit.material.absorption = Black
                  /\ hit.material.diffuse_rate = 0
                  /\ hit.material.specular_rate = 0
                  /\ hit.material.transmission_rate = 0
                  /\ sphere.material = Glass

\* C22 witness: a ray that starts inside a light hit it at the larger root,
\* as it hits the sphere, with the normal along the ray.
C22_Witness ==
    /\ LightIntersected
    /\ Length(VSub(ret.call.ray.origin, ret.call.light.center))
          < ret.call.light.radius
    /\ ret.value # None
    /\ Dot(ret.call.ray.direction, ret.value.normal) > 0
    /\ ret.value.material # Glass

\* C22 witnesses: a light hit from outside, and a light missed.
C22_FromOutside ==
    /\ LightIntersected
    /\ ret.call.ray.direction = Vec3(600, 0, -800)
    /\ ret.call.light.center = Vec3(60, 0, -80)
    /\ ret.call.light.radius = 30
    /\ ret.value # None
    /\ ret.value.t = 70

C22_Missed ==
    /\ LightIntersected
    /\ ret.call.ray.direction # Vec3(0, 0, 0)
    /\ ret.call.light.radius > 0
    /\ ret.value = None

\* ------------------------------------------------------ degenerate geometry

\* The triangle of a call has area zero: its vertices lie on a line.
ZeroArea(triangle) ==
    LET e1 == VSub(triangle.v1, triangle.v0)
        e2 == VSub(triangle.v2, triangle.v0)
    IN  /\ e1.y * e2.z = e1.z * e2.y
        /\ e1.z * e2.x = e1.x * e2.z
        /\ e1.x * e2.y = e1.y * e2.x

\* An Intersection value as any hit is: t > 0, the point of the ray at t,
\* and a normal that is a unit vector or the zero vector.
OrdinaryIntersection(hit, ray) ==
    /\ hit.t > 0
    /\ hit.point = RayAt(ray, hit.t)
    /\ \/ hit.normal = Vec3(0, 0, 0)
       \/ NearOne(Length(hit.normal))

C25_SliverHit ==
    /\ TriangleIntersected
    /\ ZeroArea(ret.call.triangle)
    /\ ret.value # None
    /\ ret.value.normal = Vec3(0, 0, 0)

\* ------------------------------------------------------- non-negative colour

\* Every channel of a colour is non-negative.
NonNegative(c) == c.r >= 0 /\ c.g >= 0 /\ c.b >= 0

\* The background, every emission and every albedo are non-negative.
NonNegativeInputs ==
    /\ NonNegative(background_color)
    /\ \A i \in 1..Len(lights) : NonNegative(lights[i].emission)
    /\ \A k \in 1..Len(surfaces) : NonNegative(surfaces[k].material.albedo)

\* C23: if background_color, every emission and every albedo have
\* non-negative channels, every colour a call of trace_ray_recursive
\* returns, and so the colour trace_ray returns, has non-negative channels.
C23_NonNegativeColor ==
    NonNegativeInputs =>
        /\ ret # None => NonNegative(ret.color)
        /\ color # None => NonNegative(color)

\* C23 witness: a nested call returned a colour other than black from a
\* surface that has a light behind it, whose Lambert term would be
\* negative.
C23_Witness ==
    /\ NonNegativeInputs
    /\ SurfaceHit
    /\ ret.call.depth > 0
    /\ \E i \in 1..Len(lights) :
          CosTheta(ret.call.closest_intersection, i) < 0
    /\ ret.color # Black
    /\ NonNegative(ret.color)

\* --------------------------------------------------------- passing_material

\* The position among the branches of a call of its transmitted branch, 0
\* if it has none: branch_rays pushes it after the diffuse branch.
TransmittedIndex(frame) ==
    IF TransmissionBranch(frame.ray, frame.closest_intersection,
                          frame.passing_material, vacuum_material) = << >>
    THEN 0
    ELSE Len(DiffuseBranch(frame.ray, frame.closest_intersection,
                           frame.passing_material)) + 1

\* Call k of the chain is tracing its transmitted branch.
Transmitting(k) ==
    /\ stack[k].pc = "call"
    /\ stack[k].next = TransmittedIndex(stack[k])

\* Call k of the chain is tracing its transmitted branch into the surface
\* it hit.
EnteredSurface(k) ==
    /\ Transmitting(k)
    /\ IsEntering(stack[k].ray, stack[k].closest_intersection)

\* Along the chain of active calls the passing_material of the first call
\* (depth 0) is vacuum_material; that of a nested call is the hit surface's
\* material if its caller is tracing a transmitted branch into the surface,
\* vacuum_material if the caller is tracing a transmitted branch out of it,
\* and the caller's passing_material on a diffuse or specular branch; so it
\* is vacuum_material or the material of a scene surface an ancestor call
\* entered through a transmitted branch.
PassingMaterialChain ==
    /\ stack # << >> =>
          /\ stack[1].depth = 0
          /\ stack[1].passing_material = vacuum_material
    /\ \A k \in 2..Len(stack) :
          LET caller == stack[k - 1]
              hit    == caller.closest_intersection
          IN  /\ stack[k].depth = caller.depth + 1
              /\ stack[k].passing_material =
                    (IF Transmitting(k - 1)
                     THEN IF IsEntering(caller.ray, hit) THEN hit.material
                          ELSE vacuum_material
                     ELSE caller.passing_material)
              /\ \/ stack[k].passing_material = vacuum_material
                 \/ \E j \in 1..(k - 1) :
                       /\ EnteredSurface(j)
                       /\ \E s \in 1..Len(surfaces) :
                             surfaces[s].material = stack[k].passing_material
                       /\ stack[j].closest_intersection.material
                              = stack[k].passing_material

\* A call keeps the passing_material and the depth it was entered with.
KeptInCall ==
    \A k \in 1..Len(stack) :
        k <= Len(stack') =>
            /\ stack'[k].passing_material = stack[k].passing_material
            /\ stack'[k].depth = stack[k].depth

\* C30: along every chain of recursive calls the passing_material is
\* vacuum_material at depth 0, changes only from a call to the call of its
\* transmitted branch (to the hit surface's material when entering, to
\* vacuum_material when exiting), is handed on unchanged by diffuse and
\* specular branches and is never changed within a call; so it is always
\* vacuum_material or the material of a scene surface an ancestor call
\* entered through a transmitted branch.
C30_PassingMaterial == []PassingMaterialChain /\ [][KeptInCall]_vars

\* C30 witness: a ray entered a surface through a transmitted branch, and
\* inside it the call's own transmitted branch leaves the surface: the
\* three calls pass vacuum_material, the surface's material and
\* vacuum_material again.
C30_Witness ==
    /\ Len(stack) = 3
    /\ EnteredSurface(1)
    /\ Transmitting(2)
    /\ ~IsEntering(stack[2].ray, stack[2].closest_intersection)
    /\ stack[2].passing_material = stack[1].closest_intersection.material
    /\ stack[2].passing_material # vacuum_material
    /\ stack[3].passing_material = vacuum_material

\* C30: a diffuse branch traced inside a surface keeps the surface's
\* material as passing_material.
C30_DiffuseInside ==
    /\ Len(stack) = 3
    /\ EnteredSurface(1)
    /\ stack[2].pc = "call"
    /\ ~Transmitting(2)
    /\ stack[3].passing_material = stack[2].passing_material
    /\ stack[3].passing_material # vacuum_material

\* ------------------------------------------------------------ pure tracing

\* trace_ray_recursive as a function of its parameters and the
\* configuration alone.
RECURSIVE TraceRayRecursive(_, _, _, _)
TraceRayRecursive(ray, depth, current_weight, passing_material) ==
    IF Terminated(depth, current_weight) THEN TerminatedColor
    ELSE LET closest_intersection == FindClosestIntersection(ray, surfaces)
             closest_light_intersection == FindClosestLight(ray, lights)
         IN  IF LightFirst(closest_intersection, closest_light_intersection)
             THEN LightColor(lights[closest_light_intersection.idx],
                             closest_light_intersection.hit,
                             passing_material, current_weight)
             ELSE IF closest_intersection = None THEN NoHitColor
             ELSE LET material == closest_intersection.material
                      branched_rays == BranchRays(ray, closest_intersection,
                                                  passing_material,
                                                  vacuum_material)
                      Indirect[i \in 0..Len(branched_rays)] ==
                          IF i = 0 THEN Black
                          ELSE CAdd(Indirect[i - 1],
                                    CScale(CMul(material.albedo,
                                                TraceRayRecursive(
                                                    branched_rays[i].ray,
                                                    depth + 1,
                                                    FMul(current_weight,
                                                         branched_rays[i].weight),
                                                    branched_rays[i].passing_material)),
                                           branched_rays[i].weight))
                  IN  SurfaceColor(DirectColor(closest_intersection, lights,
                                               surfaces),
                                   Indirect[Len(branched_rays)],
                                   StepAttenuation(passing_material,
                                                   closest_intersection))

\* Every call that returns, returns the colour its parameters and the
\* configuration determine, and trace_ray returns that of its ray.
SameColor ==
    /\ ret # None =>
          ret.color = TraceRayRecursive(ret.call.ray, ret.call.depth,
                                        ret.call.current_weight,
                                        ret.call.passing_material)
    /\ (ret # None /\ ret.call.depth = 0) => color = ret.color

max_concurrent_threads == IF 16 < num_cores THEN 16 ELSE num_cores

\* No trace is modelled while main's loop is: frame() is one step of a
\* thread.
NoTrace ==
    /\ surfaces = << >>
    /\ lights = << >>
    /\ background_color = Black
    /\ max_depth = 1
    /\ min_weight = 1
    /\ vacuum_material = Vacuum
    /\ stack = << >>
    /\ ret = None
    /\ color = None
    /\ calls = 0

trace == << config, stack, ret, color, calls >>

MainInit ==
    /\ NoTrace
    /\ \E cores \in 1..MaxCores : MainStarts(cores)

\* The loop runs on while the threads already spawned are fewer than the
\* frames, whatever handles holds.
LoopConditionFramesOnly == next_frame < frames

\* while next_frame < frames || !handles.is_empty()
LoopCondition == next_frame < frames \/ handles # << >>

\* A thread is spawned while handles holds no more than the limit.
CanSpawnUpTo ==
    next_frame < frames /\ Len(handles) <= max_concurrent_threads

\* if next_frame < frames && handles.len() < max_concurrent_threads
CanSpawn ==
    next_frame < frames /\ Len(handles) < max_concurrent_threads

\* A sequence without its entry i.
RemoveAt(s, i) == SubSeq(s, 1, i - 1) \o SubSeq(s, i + 1, Len(s))

\* The test of the while loop; when it fails "All frames rendered!" is
\* printed and main returns.
While ==
    /\ main_pc = "while"
    /\ IF LoopCondition
       THEN main_pc' = "retain" /\ retain_idx' = 1
       ELSE main_pc' = "exited" /\ UNCHANGED retain_idx
    /\ UNCHANGED << trace, num_cores, next_frame, handles, is_done, threads,
                    spawned >>

\* One call of the closure of handles.retain_mut: it loads the entry's
\* is_done and drops the entry if it is set.
Retain ==
    /\ main_pc = "retain"
    /\ IF retain_idx > Len(handles)
       THEN main_pc' = "if" /\ UNCHANGED << handles, retain_idx >>
       ELSE IF is_done[handles[retain_idx]]
       THEN /\ handles' = RemoveAt(handles, retain_idx)
            /\ UNCHANGED << main_pc, retain_idx >>
       ELSE /\ retain_idx' = retain_idx + 1
            /\ UNCHANGED << main_pc, handles >>
    /\ UNCHANGED << trace, num_cores, next_frame, is_done, threads, spawned >>

\* The first branch of the if: a thread is spawned for next_frame and its
\* entry pushed.
Spawn ==
    /\ main_pc = "if"
    /\ CanSpawn
    /\ threads' = [threads EXCEPT ![next_frame] = "frame"]
    /\ is_done' = [is_done EXCEPT ![next_frame] = FALSE]
    /\ handles' = Append(handles, next_frame)
    /\ spawned' = Append(spawned, next_frame)
    /\ next_frame' = next_frame + 1
    /\ main_pc' = "while"
    /\ UNCHANGED << trace, num_cores, retain_idx >>

\* The second branch: main sleeps 10 ms.
Sleep ==
    /\ main_pc = "if"
    /\ ~CanSpawn
    /\ handles # << >>
    /\ main_pc' = "while"
    /\ UNCHANGED << trace, num_cores, next_frame, handles, is_done, threads,
                    retain_idx, spawned >>

\* Neither branch: every frame is spawned and handles is empty.
Skip ==
    /\ main_pc = "if"
    /\ ~CanSpawn
    /\ handles = << >>
    /\ main_pc' = "while"
    /\ UNCHANGED << trace, num_cores, next_frame, handles, is_done, threads,
                    retain_idx, spawned >>

\* frame() returns in the thread of frame f: the image is saved.
FrameReturns(f) ==
    /\ threads[f] = "frame"
    /\ threads' = [threads EXCEPT ![f] = "store"]
    /\ UNCHANGED << trace, num_cores, next_frame, handles, is_done, main_pc,
                    retain_idx, spawned >>

\* frame() panics in the thread of frame f (save_image_to_file failed and
\* expect panicked): the thread ends without the store.
FramePanics(f) ==
    /\ threads[f] = "frame"
    /\ threads' = [threads EXCEPT ![f] = "panicked"]
    /\ UNCHANGED << trace, num_cores, next_frame, handles, is_done, main_pc,
                    retain_idx, spawned >>

\* is_done_clone.store(true, Ordering::Relaxed), and the thread ends.
StoreDone(f) ==
    /\ threads[f] = "store"
    /\ is_done' = [is_done EXCEPT ![f] = TRUE]
    /\ threads' = [threads EXCEPT ![f] = "ended"]
    /\ UNCHANGED << trace, num_cores, next_frame, handles, main_pc,
                    retain_idx, spawned >>

\* A step of main.
MainLoop == While \/ Retain \/ Spawn \/ Sleep \/ Skip

\* frame() ends in the thread of frame f.
FrameEnds(f) == FrameReturns(f) \/ FramePanics(f)

MainNext ==
    \/ MainLoop
    \/ \E f \in FrameIdx : FrameEnds(f) \/ StoreDone(f)

MainSpec == MainInit /\ [][MainNext]_vars

\* main and every thread are scheduled again and again, and frame() ends.
MainFairSpec ==
    /\ MainSpec
    /\ WF_vars(MainLoop)
    /\ \A f \in FrameIdx : WF_vars(FrameEnds(f)) /\ WF_vars(StoreDone(f))

\* ------------------------------------------------- main: the loop's claims

\* The frames whose thread is spawned and has not stored its is_done.
Unfinished == { f \in FrameIdx : threads[f] \in { "frame", "store", "panicked" } }

\* The frame indexes handles holds.
Held == { handles[i] : i \in 1..Len(handles) }

\* C26 as claimed: the threads spawned that have not yet set their is_done
\* flag never number more than 4, whatever the number of cores.
C26_AtMostFour == Cardinality(Unfinished) <= 4

\* C26: the threads spawned that have not yet set their is_done flag are
\* all held in handles and never number more than
\* max_concurrent_threads = min(16, num_cores).
C26_AtMostMaxConcurrent ==
    /\ Unfinished \subseteq Held
    /\ Cardinality(Unfinished) <= max_concurrent_threads

\* C26 witness: on five cores five threads are rendering at once.
C26_Witness ==
    /\ num_cores = 5
    /\ Cardinality({ f \in FrameIdx : threads[f] = "frame" }) = 5

\* The frames spawned so far are 0, 1, ... in this order, each once, the
\* threads started are theirs, and handles holds no more entries than
\* max_concurrent_threads; when main has left the loop every frame has
\* been spawned.
SpawnedInOrder ==
    /\ spawned = [i \in 1..next_frame |-> i - 1]
    /\ next_frame <= frames
    /\ \A f \in FrameIdx : threads[f] # "unspawned" <=> f < next_frame
    /\ Len(handles) <= max_concurrent_threads
    /\ Held \subseteq { spawned[i] : i \in 1..Len(spawned) }
    /\ main_pc = "exited" => next_frame = frames

\* A step spawns a thread only while handles has fewer entries than
\* max_concurrent_threads, and drops an entry of handles only when its
\* thread has stored is_done = true.
SpawnAndRetainStep ==
    /\ spawned' # spawned =>
          /\ Len(handles) < max_concurrent_threads
          /\ spawned' = Append(spawned, next_frame)
          /\ handles' = Append(handles, next_frame)
    /\ \A f \in Held \ { handles'[i] : i \in 1..Len(handles') } :
          is_done[f] /\ threads[f] = "ended"

\* C27: main spawns exactly one thread for each frame index 0 .. frames-1,
\* in increasing order and never twice; it spawns only when handles.len() <
\* max_concurrent_threads, so handles never holds more than
\* max_concurrent_threads entries; and an entry is removed only after its
\* thread has stored is_done = true.
C27_SpawnOncePerFrame == []SpawnedInOrder /\ [][SpawnAndRetainStep]_vars

\* C27 witness: on two cores main has left the loop after spawning every
\* frame once, in order.
C27_Witness ==
    /\ num_cores = 2
    /\ main_pc = "exited"
    /\ spawned = [i \in 1..frames |-> i - 1]
    /\ handles = << >>

\* C27: handles is full, frames are left to spawn and main sleeps instead
\* of spawning.
C27_Full ==
    /\ main_pc = "if"
    /\ next_frame < frames
    /\ Len(handles) = max_concurrent_threads
    /\ ~CanSpawn

\* Every frame's thread came back from frame() and stored its is_done.
AllStored == \A f \in FrameIdx : threads[f] = "ended" /\ is_done[f]

\* No call of frame() has panicked.
NoPanic == \A f \in FrameIdx : threads[f] # "panicked"

\* C28: provided every call of frame() returns, main's loop eventually
\* exits; and "All frames rendered!" is printed only after every frame
\* 0 .. frames-1 has come back from frame() and stored its is_done flag, so
\* that no frame is still rendering when the loop exits.
C28_ExitsAfterAllFrames ==
    /\ [](main_pc = "exited" => AllStored)
    /\ ([]NoPanic) => <>(main_pc = "exited")

\* C28 witness: main has left the loop, every frame rendered and flagged,
\* on a machine that ran four threads at a time.
C28_Witness ==
    /\ num_cores = 4
    /\ main_pc = "exited"
    /\ NoPanic
    /\ AllStored
    /\ next_frame = frames

\* C29 as claimed: main terminates in every execution, also when a thread
\* panics inside frame().
C29_MainTerminates == <>(main_pc = "exited")

\* C29: the entry of a thread that panicked in frame() stays in handles,
\* its is_done never set, and main does not leave the loop.
C29_PanickedStays ==
    \A f \in FrameIdx :
        threads[f] = "panicked" =>
            /\ f \in Held
            /\ ~is_done[f]
            /\ LoopCondition
            /\ main_pc # "exited"

\* C29 witness: a thread has panicked in frame(), every other frame is
\* rendered and dropped, and main sleeps with the panicked thread's entry
\* in handles.
C29_Witness ==
    /\ threads[0] = "panicked"
    /\ \A f \in FrameIdx \ {0} : threads[f] = "ended"
    /\ handles = << 0 >>
    /\ next_frame = frames
    /\ main_pc = "if"
    /\ ~CanSpawn

====
